---------------------------- MODULE Spec2Model ----------------------------
(***************************************************************************)
(* Model of cargo's build_context/target_info.rs: the flag resolution      *)
(* chain (env_args), the construction of the per-target capability record  *)
(* (TargetInfo::new) and its memoized crate-type table, the repository of  *)
(* records (RustcTargetData), and the rustdoc fingerprint guard            *)
(* (RustDocFingerprint::check_rustdoc_fingerprint with clean_doc).         *)
(*                                                                         *)
(* Strings whose characters the code inspects are sequences of one-        *)
(* character strings, e.g. "a b" is <<"a", " ", "b">>.                     *)
(***************************************************************************)
EXTENDS Integers, Sequences, FiniteSets, TLC

VARIABLES
    \* ---- flag resolution chain (env_args) ----
    flagIn,      \* the inputs of one env_args call
    flagOut,     \* its outcome, or NotCalled
    \* ---- rustdoc fingerprint guard ----
    record,      \* content of .rustdoc_fingerprint.json
    docs,        \* per build kind: the doc directory (NoDir or its entries)
    rustc_vv,    \* verbose version of the compiler in use
    skip,        \* -Z skip-rustdoc-fingerprint
    since,       \* what happened since the last guard run
    lastRun,     \* the guard run that produced this state, or NoRun
    \* ---- capability record (TargetInfo) ----
    crate_types, \* the memo table: crate type -> Vacant or a stored entry
    probes,      \* per crate type: discover_crate_type calls, by outcome
    lastCall,    \* the file_types / rustc_outputs call that produced this state
    \* ---- construction of a capability record (TargetInfo::new) ----
    newIn,       \* the inputs of one TargetInfo::new call
    newOut,      \* its outcome, or NotCalled
    \* ---- repository of capability records (RustcTargetData) ----
    dataIn,      \* the inputs of RustcTargetData::new
    data,        \* its outcome, or NotCalled
    lastLookup,  \* the info / target_config lookup that produced this state
    \* ---- parse_crate_type on one line ----
    parseIn,     \* the prefix and suffix a file-name line is made of
    parseOut,    \* what parse_crate_type reads off the line, or NotCalled
    \* ---- callers that share one capability record ----
    workers,     \* per worker: where its file_types call stands, and its result
    borrowed     \* the workers that hold the RefCell of the memo table borrowed

flagVars  == <<flagIn, flagOut>>
guardVars == <<record, docs, rustc_vv, skip, since, lastRun>>
infoVars  == <<crate_types, probes, lastCall>>
newVars   == <<newIn, newOut>>
dataVars  == <<dataIn, data, lastLookup>>
parseVars == <<parseIn, parseOut>>
raceVars  == <<workers, borrowed>>
vars      == <<flagVars, guardVars, infoVars, newVars, dataVars, parseVars, raceVars>>

(***************************************************************************)
(* A component that a specification leaves alone stays in its idle state   *)
(***************************************************************************)
NotCalled == [called |-> FALSE]

NoInput == [set |-> FALSE]

FlagIdle == flagIn = NoInput /\ flagOut = NotCalled

InfoIdle == crate_types = 0 /\ probes = 0 /\ lastCall = 0

GuardIdle ==
    /\ record = 0 /\ docs = 0 /\ rustc_vv = 0 /\ skip = FALSE
    /\ since = 0 /\ lastRun = 0

NewIdle == newIn = NoInput /\ newOut = NotCalled

\* no lookup was made yet
NoLookup == [op |-> "none"]

DataIdle == dataIn = NoInput /\ data = NotCalled /\ lastLookup = NoLookup

ParseIdle == parseIn = NoInput /\ parseOut = NotCalled

RaceIdle == workers = 0 /\ borrowed = {}

(***************************************************************************)
(* Generic helpers                                                         *)
(***************************************************************************)
None == [some |-> FALSE, val |-> <<>>]

Some(v) == [some |-> TRUE, val |-> v]

RECURSIVE Concat(_)
Concat(ss) == IF ss = <<>> THEN <<>> ELSE Head(ss) \o Concat(Tail(ss))

SeqsUpTo(S, n) == UNION {[1..k -> S] : k \in 0..n}

Range(s) == {s[i] : i \in 1..Len(s)}

(***************************************************************************)
(* String operations of the Rust standard library used by the code         *)
(***************************************************************************)
\* char::is_whitespace, restricted to the characters the model uses
IsWhitespace(c) == c \in {" ", "\t", "\n", "\r"}

\* str::trim: strips leading and trailing whitespace
Trim(s) ==
    LET keep == {i \in 1..Len(s) : ~IsWhitespace(s[i])}
    IN  IF keep = {} THEN <<>>
        ELSE LET lo == CHOOSE i \in keep : \A j \in keep : i <= j
                 hi == CHOOSE i \in keep : \A j \in keep : j <= i
             IN  SubSeq(s, lo, hi)

\* str::split(char): the pieces between occurrences of c, empty pieces kept
RECURSIVE SplitChar(_, _)
SplitChar(s, c) ==
    LET hits == {i \in 1..Len(s) : s[i] = c}
    IN  IF hits = {} THEN <<s>>
        ELSE LET i == CHOOSE i \in hits : \A j \in hits : i <= j
             IN  <<SubSeq(s, 1, i - 1)>> \o SplitChar(SubSeq(s, i + 1, Len(s)), c)

\* the first position at which p occurs in s, 0 if none
Find(s, p) ==
    LET hits == {i \in 1..(Len(s) - Len(p) + 1) : SubSeq(s, i, i + Len(p) - 1) = p}
    IN  IF hits = {} THEN 0 ELSE CHOOSE i \in hits : \A j \in hits : i <= j

\* str::split(&str): the pieces between non-overlapping occurrences of sep
RECURSIVE SplitStr(_, _)
SplitStr(s, sep) ==
    LET i == Find(s, sep)
    IN  IF i = 0 THEN <<s>>
        ELSE <<SubSeq(s, 1, i - 1)>> \o SplitStr(SubSeq(s, i + Len(sep), Len(s)), sep)

\* str::split_whitespace: maximal runs of non-whitespace characters
RECURSIVE SplitWhitespace(_)
SplitWhitespace(s) ==
    LET t == Trim(s)
        ws == {i \in 1..Len(t) : IsWhitespace(t[i])}
    IN  IF t = <<>> THEN <<>>
        ELSE IF ws = {} THEN <<t>>
        ELSE LET i == CHOOSE i \in ws : \A j \in ws : i <= j
             IN  <<SubSeq(t, 1, i - 1)>> \o SplitWhitespace(SubSeq(t, i + 1, Len(t)))

StartsWith(s, p) == Len(p) <= Len(s) /\ SubSeq(s, 1, Len(p)) = p

EndsWith(s, p) == Len(p) <= Len(s) /\ SubSeq(s, Len(s) - Len(p) + 1, Len(s)) = p

Contains(s, p) == Find(s, p) # 0

(***************************************************************************)
(* Build kinds                                                             *)
(***************************************************************************)
HostTriple == "h"

Host == [tag |-> "Host", triple |-> ""]

Target(t) == [tag |-> "Target", triple |-> t]

\* CompileKind::is_host
is_host(kind) == kind.tag = "Host"

\* the triples of the model: the host's own and one cross target
Triples == {HostTriple, "x"}

CompileKinds == {Host} \cup {Target(t) : t \in Triples}

(***************************************************************************)
(* Flag resolution chain: env_args                                         *)
(***************************************************************************)
\* name.chars().flat_map(|c| c.to_lowercase()), on the two names in use
Lowercase(name) ==
    CASE name = "RUSTFLAGS" -> "rustflags"
      [] name = "RUSTDOCFLAGS" -> "rustdocflags"
      [] OTHER -> name

FlagNames == {"RUSTFLAGS", "RUSTDOCFLAGS"}

\* env::var(name): Ok only for a variable that is set and valid Unicode
EnvUnset == [tag |-> "unset", val |-> <<>>]

EnvNotUnicode == [tag |-> "not_unicode", val |-> <<>>]

EnvStr(s) == [tag |-> "str", val |-> s]

env_var(env, name) ==
    IF env[name].tag = "str" THEN Some(env[name].val) ELSE None

\* mutant: isolates the host only when several kinds, one of them a cross
\* target, were requested
IsolationAppliesMultiKind(requested_kinds, kind) ==
    /\ Len(requested_kinds) > 1
    /\ \E i \in 1..Len(requested_kinds) : ~is_host(requested_kinds[i])
    /\ is_host(kind)

\* requested_kinds != [CompileKind::Host] && kind.is_host()
IsolationApplies(requested_kinds, kind) ==
    requested_kinds # <<Host>> /\ is_host(kind)

\* mutant: splits at every whitespace character
EnvTokensSplitWhitespace(a) == SplitWhitespace(a)

\* a.split(' ').map(str::trim).filter(|s| !s.is_empty())
EnvTokens(a) ==
    LET pieces  == SplitChar(a, " ")
        trimmed == [i \in 1..Len(pieces) |-> Trim(pieces[i])]
    IN  SelectSeq(trimmed, LAMBDA p : p # <<>>)

\* CfgExpr, as cargo_platform parses a `cfg(..)` key; "invalid" is a key that
\* does not parse
CfgName(n) == [op |-> "name", name |-> n]

CfgNot(n) == [op |-> "not", name |-> n]

CfgInvalid == [op |-> "invalid", name |-> ""]

\* CfgExpr::matches_key(key, target_cfg)
matches_key(key, target_cfg) ==
    CASE key.op = "name" -> key.name \in target_cfg
      [] key.op = "not" -> key.name \notin target_cfg
      [] OTHER -> FALSE

\* the target.'cfg(..)'.rustflags of every entry that has some and whose key
\* matches, in the order of config.target_cfgs()
RECURSIVE CfgRustflags(_, _)
CfgRustflags(entries, target_cfg) ==
    IF entries = <<>> THEN <<>>
    ELSE LET e == Head(entries)
             rest == CfgRustflags(Tail(entries), target_cfg)
         IN  IF e.rustflags.some /\ matches_key(e.key, target_cfg)
             THEN e.rustflags.val \o rest
             ELSE rest

\* the triple whose target.<triple> table is read
KeyTriple(host_triple, kind) ==
    IF is_host(kind) THEN host_triple ELSE kind.triple

\* mutant: the matching cfg entries come before target.<triple>.<name>
PlatformFlagsCfgFirst(config, host_triple, target_cfg, kind, name) ==
    LET byName == config.byName[<<KeyTriple(host_triple, kind), Lowercase(name)>>]
        first  == IF byName.some THEN byName.val ELSE <<>>
    IN  IF target_cfg.some
        THEN CfgRustflags(config.cfgs, target_cfg.val) \o first
        ELSE first

\* a variant that reads the cfg entries without a predicate set too, taking
\* the set as empty
PlatformFlagsBlindCfg(config, host_triple, target_cfg, kind, name) ==
    LET byName == config.byName[<<KeyTriple(host_triple, kind), Lowercase(name)>>]
        first  == IF byName.some THEN byName.val ELSE <<>>
    IN  first \o CfgRustflags(config.cfgs, IF target_cfg.some THEN target_cfg.val ELSE {})

\* target.<triple>.<name> followed by the matching cfg entries
PlatformFlags(config, host_triple, target_cfg, kind, name) ==
    LET byName == config.byName[<<KeyTriple(host_triple, kind), Lowercase(name)>>]
        first  == IF byName.some THEN byName.val ELSE <<>>
    IN  IF target_cfg.some
        THEN first \o CfgRustflags(config.cfgs, target_cfg.val)
        ELSE first

\* build.rustflags or build.rustdocflags
BuildFlags(config, name) ==
    IF Lowercase(name) = "rustflags" THEN config.build.rustflags
    ELSE config.build.rustdocflags

Ok(v, consulted) == [ok |-> TRUE, val |-> v, consulted |-> consulted]

Err(consulted) == [ok |-> FALSE, val |-> <<>>, consulted |-> consulted]

\* env_args. `consulted` lists the layers the call read, in order.
env_args(config, env, requested_kinds, host_triple, target_cfg, kind, name) ==
    IF IsolationApplies(requested_kinds, kind) THEN Ok(<<>>, <<>>)
    ELSE IF env_var(env, name).some
    THEN Ok(EnvTokens(env_var(env, name).val), <<"env">>)
    ELSE IF config.errAt = "target" THEN Err(<<"env", "target">>)
    ELSE IF target_cfg.some /\ config.errAt = "cfgs"
    THEN Err(<<"env", "target", "cfgs">>)
    ELSE LET rustflags == PlatformFlags(config, host_triple, target_cfg, kind, name)
             read == IF target_cfg.some THEN <<"env", "target", "cfgs">>
                     ELSE <<"env", "target">>
         IN  IF rustflags # <<>> THEN Ok(rustflags, read)
             ELSE IF config.errAt = "build" THEN Err(read \o <<"build">>)
             ELSE IF BuildFlags(config, name).some
             THEN Ok(BuildFlags(config, name).val, read \o <<"build">>)
             ELSE Ok(<<>>, read \o <<"build">>)

(***************************************************************************)
(* Inputs of the flag resolution chain                                     *)
(***************************************************************************)
MaxRequested == 2

RequestedKindLists == SeqsUpTo({Host, Target("x")}, MaxRequested)

\* values of the environment variable: unset, not Unicode, or a string: every
\* string of spaces, tabs and "a" up to MaxEnvLen, and some longer ones
MaxEnvLen == 2

EnvStrings ==
    SeqsUpTo({" ", "\t", "a"}, MaxEnvLen) \cup
    { <<"a", " ", "b">>, <<"b", " ", "a">>, <<"a", "\t", "b">>,
      <<" ", "a", " ", " ", "b", " ">>, <<"\t", "b", " ", "a", "\t">>,
      <<"a", " ", "\t", " ", "a">> }

EnvValues == {EnvUnset, EnvNotUnicode} \cup {EnvStr(s) : s \in EnvStrings}

\* the variable of the other flag category is set throughout
Environment(name, v) ==
    [n \in FlagNames |-> IF n = name THEN v ELSE EnvStr(<<"o">>)]

Shapes == {"none", "empty", "flags"}

Shaped(shape, tokens) ==
    CASE shape = "none" -> None
      [] shape = "empty" -> Some(<<>>)
      [] OTHER -> Some(tokens)

ByNameTable(shape) ==
    [k \in Triples \X {"rustflags", "rustdocflags"} |->
        Shaped(shape, << <<"t", k[1], k[2]>>, <<"t">> >>)]

CfgEntry(key, rustflags) == [key |-> key, rustflags |-> rustflags]

CfgLists ==
    { <<>>,
      << CfgEntry(CfgName("unix"), Some(<<>>)) >>,
      << CfgEntry(CfgName("unix"), Some(<< <<"u">> >>)),
         CfgEntry(CfgNot("unix"), Some(<< <<"n">> >>)),
         CfgEntry(CfgName("unix"), None),
         CfgEntry(CfgInvalid, Some(<< <<"i">> >>)),
         CfgEntry(CfgName("unix"), Some(<< <<"t">>, <<"u">> >>)) >> }

BuildTable(shape) ==
    [rustflags |-> Shaped(shape, << <<"g", "r">> >>),
     rustdocflags |-> Shaped(shape, << <<"g", "d">> >>)]

Configs ==
    { [byName |-> ByNameTable(s1), cfgs |-> l, build |-> BuildTable(s2), errAt |-> e] :
        s1 \in Shapes, l \in CfgLists, s2 \in Shapes,
        e \in {"none", "target", "cfgs", "build"} }

TargetCfgs == {None, Some({}), Some({"unix"})}

FlagInit ==
    /\ \E c \in Configs, rk \in RequestedKindLists, k \in CompileKinds,
          n \in FlagNames, v \in EnvValues, tc \in TargetCfgs :
          flagIn = [set |-> TRUE, config |-> c, env |-> Environment(n, v),
                    requested_kinds |-> rk, target_cfg |-> tc, kind |-> k,
                    name |-> n]
    /\ flagOut = NotCalled

\* one call of env_args on the inputs drawn
ResolveFlags ==
    /\ flagIn.set /\ ~flagOut.called
    /\ flagOut' = [called |-> TRUE,
                   out |-> env_args(flagIn.config, flagIn.env, flagIn.requested_kinds,
                                    HostTriple, flagIn.target_cfg, flagIn.kind,
                                    flagIn.name)]
    /\ UNCHANGED <<flagIn, guardVars, infoVars, newVars, dataVars, parseVars, raceVars>>

InitFlags == FlagInit /\ GuardIdle /\ InfoIdle /\ NewIdle /\ DataIdle /\ ParseIdle /\ RaceIdle

NextFlags == ResolveFlags

SpecFlags == InitFlags /\ [][NextFlags]_vars

(***************************************************************************)
(* Crate types and the compiler's answers                                  *)
(***************************************************************************)
KNOWN_CRATE_TYPES == <<"bin", "rlib", "dylib", "cdylib", "staticlib", "proc-macro">>

\* CrateType::Other(..): crate types cargo has no variant for
OtherCrateTypes == {"o1", "o2"}

CrateTypes == Range(KNOWN_CRATE_TYPES) \cup {"lib"} \cup OtherCrateTypes

\* CrateType::as_str, character by character
as_str(crate_type) ==
    CASE crate_type = "bin" -> <<"b", "i", "n">>
      [] crate_type = "lib" -> <<"l", "i", "b">>
      [] crate_type = "rlib" -> <<"r", "l", "i", "b">>
      [] crate_type = "dylib" -> <<"d", "y", "l", "i", "b">>
      [] crate_type = "cdylib" -> <<"c", "d", "y", "l", "i", "b">>
      [] crate_type = "staticlib" -> <<"s", "t", "a", "t", "i", "c", "l", "i", "b">>
      [] crate_type = "proc-macro" -> <<"p", "r", "o", "c", "-", "m", "a", "c", "r", "o">>
      [] crate_type = "o1" -> <<"o", "1">>
      [] OTHER -> <<"o", "2">>

\* CrateType::is_linkable
is_linkable(crate_type) == crate_type \in {"lib", "rlib", "dylib", "proc-macro"}

\* CrateType::is_dynamic
is_dynamic(crate_type) == crate_type \in {"dylib", "cdylib", "proc-macro"}

\* CrateType::requires_upstream_objects
requires_upstream_objects(crate_type) == crate_type \notin {"lib", "rlib"}

UnsupportedCrateType == <<"u", "n", "s", "u", "p", "p", "o", "r", "t", "e", "d", " ", "c", "r", "a", "t", "e", " ", "t", "y", "p", "e">>

UnknownCrateType == <<"u", "n", "k", "n", "o", "w", "n", " ", "c", "r", "a", "t", "e", " ", "t", "y", "p", "e">>

\* format!("crate type `{}`", crate_type); the backquote, which a TLA+ string
\* cannot hold, is written "'" throughout
QuotedCrateType(crate_type) == <<"c", "r", "a", "t", "e", " ", "t", "y", "p", "e", " ", "'">> \o as_str(crate_type) \o <<"'">>

\* mutant: a separator of two underscores
SeparatorDouble == <<"_", "_">>

Separator == <<"_", "_", "_">>

ROk(v) == [ok |-> TRUE, val |-> v]

RErr == [ok |-> FALSE, val |-> None]

\* mutant: the diagnostics are not read; every crate type takes a line
parse_crate_type_ignores_diagnostics(crate_type, error, lines) ==
    IF lines = <<>> THEN [res |-> RErr, lines |-> lines]
    ELSE LET parts == SplitStr(Trim(Head(lines)), Separator)
         IN  IF Len(parts) < 2 THEN [res |-> RErr, lines |-> Tail(lines)]
             ELSE [res |-> ROk(Some(<<parts[1], parts[2]>>)),
                   lines |-> Tail(lines)]

\* parse_crate_type: Ok(None) for a crate type the diagnostics reject, else
\* the prefix and suffix read off the next line; `lines` is what is left
parse_crate_type(crate_type, error, lines) ==
    LET not_supported ==
            \E i \in 1..Len(error) :
                /\ \/ Contains(error[i], UnsupportedCrateType)
                   \/ Contains(error[i], UnknownCrateType)
                /\ Contains(error[i], QuotedCrateType(crate_type))
    IN  IF not_supported THEN [res |-> ROk(None), lines |-> lines]
        ELSE IF lines = <<>> THEN [res |-> RErr, lines |-> lines]
        ELSE LET parts == SplitStr(Trim(Head(lines)), Separator)
             IN  IF Len(parts) < 2 THEN [res |-> RErr, lines |-> Tail(lines)]
                 ELSE [res |-> ROk(Some(<<parts[1], parts[2]>>)),
                       lines |-> Tail(lines)]

\* what one run of the compiler gives: whether it could be run, and the lines
\* of its standard output and standard error
Output(ran, stdout, stderr) == [ran |-> ran, stdout |-> stdout, stderr |-> stderr]

Vacant == [stored |-> FALSE, val |-> None]

Stored(v) == [stored |-> TRUE, val |-> v]

\* mutant: the crate types take their lines in the reverse of the request
\* order
RECURSIVE NewCrateTypesReversed(_, _, _, _)
NewCrateTypesReversed(todo, error, lines, map) ==
    IF todo = <<>> THEN [ok |-> TRUE, map |-> map, lines |-> lines]
    ELSE LET last == todo[Len(todo)]
             out == parse_crate_type(last, error, lines)
         IN  IF ~out.res.ok THEN [ok |-> FALSE, map |-> map, lines |-> out.lines]
             ELSE NewCrateTypesReversed(SubSeq(todo, 1, Len(todo) - 1), error,
                                        out.lines,
                                        [map EXCEPT ![last] = Stored(out.res.val)])

\* TargetInfo::new, lines 196-201: one parse_crate_type per known crate type
\* over the lines of the batched query, each result inserted into the map
RECURSIVE NewCrateTypes(_, _, _, _)
NewCrateTypes(todo, error, lines, map) ==
    IF todo = <<>> THEN [ok |-> TRUE, map |-> map, lines |-> lines]
    ELSE LET out == parse_crate_type(Head(todo), error, lines)
         IN  IF ~out.res.ok THEN [ok |-> FALSE, map |-> map, lines |-> out.lines]
             ELSE NewCrateTypes(Tail(todo), error, out.lines,
                                [map EXCEPT ![Head(todo)] = Stored(out.res.val)])

EmptyMap == [c \in CrateTypes |-> Vacant]

\* answers of the batched query: a Unix-like target, an MSVC target, and a
\* target that rejects the dynamic crate types
BatchedOutputs ==
    { Output(TRUE, <<<<"_", "_", "_">>, <<"l", "i", "b", "_", "_", "_", ".", "r", "l", "i", "b">>, <<"l", "i", "b", "_", "_", "_", ".", "s", "o">>, <<"l", "i", "b", "_", "_", "_", ".", "s", "o">>, <<"l", "i", "b", "_", "_", "_", ".", "a">>, <<"l", "i", "b", "_", "_", "_", ".", "s", "o">>, <<"/", "s">>, <<"u", "n", "i", "x">>>>, <<>>),
      Output(TRUE, <<<<"_", "_", "_", ".", "e", "x", "e">>, <<"l", "i", "b", "_", "_", "_", ".", "r", "l", "i", "b">>, <<"_", "_", "_", ".", "d", "l", "l">>, <<"_", "_", "_", ".", "d", "l", "l">>, <<"_", "_", "_", ".", "l", "i", "b">>, <<"_", "_", "_", ".", "d", "l", "l">>, <<"/", "s">>>>, <<>>),
      Output(TRUE, <<<<"_", "_", "_", ".", "j", "s">>, <<"l", "i", "b", "_", "_", "_", ".", "r", "l", "i", "b">>, <<"l", "i", "b", "_", "_", "_", ".", "a">>, <<"/", "s">>>>,
             <<<<"d", "r", "o", "p", "p", "i", "n", "g", " ", "u", "n", "s", "u", "p", "p", "o", "r", "t", "e", "d", " ", "c", "r", "a", "t", "e", " ", "t", "y", "p", "e", " ", "'", "d", "y", "l", "i", "b", "'", " ", "f", "o", "r", " ", "t", "a", "r", "g", "e", "t">>, <<"d", "r", "o", "p", "p", "i", "n", "g", " ", "u", "n", "s", "u", "p", "p", "o", "r", "t", "e", "d", " ", "c", "r", "a", "t", "e", " ", "t", "y", "p", "e", " ", "'", "c", "d", "y", "l", "i", "b", "'", " ", "f", "o", "r", " ", "t", "a", "r", "g", "e", "t">>, <<"d", "r", "o", "p", "p", "i", "n", "g", " ", "u", "n", "s", "u", "p", "p", "o", "r", "t", "e", "d", " ", "c", "r", "a", "t", "e", " ", "t", "y", "p", "e", " ", "'", "p", "r", "o", "c", "-", "m", "a", "c", "r", "o", "'", " ", "f", "o", "r", " ", "t", "a", "r", "g", "e", "t">>>>) }

\* answers of a single-kind probe for crate_type: the compiler cannot be run;
\* a prefix and suffix; the crate type rejected; no line; a line without the
\* separator
ProbeOutputs(crate_type) ==
    { Output(FALSE, <<>>, <<>>),
      Output(TRUE, <<<<" ", "p", "r", "e", "_", "_", "_", ".", "o", " ">>>>, <<>>),
      Output(TRUE, <<>>, <<<<"d", "r", "o", "p", "p", "i", "n", "g", " ", "u", "n", "s", "u", "p", "p", "o", "r", "t", "e", "d", " ", "c", "r", "a", "t", "e", " ", "t", "y", "p", "e", " ", "'">> \o as_str(crate_type) \o <<"'", " ", "f", "o", "r", " ", "t", "a", "r", "g", "e", "t">>>>),
      Output(TRUE, <<>>, <<>>),
      Output(TRUE, <<<<"l", "i", "b", "_", "_", ".", "o">>>>, <<>>) }

\* the target triples file_types is asked about
TargetTriples ==
    { <<"l", "-", "l", "i", "n", "u", "x", "-", "g", "n", "u">>, <<"w", "-", "w", "i", "n", "d", "o", "w", "s", "-", "m", "s", "v", "c">>, <<"w", "-", "w", "i", "n", "d", "o", "w", "s", "-", "g", "n", "u">>, <<"w", "a", "s", "m", "3", "2", "-", "e">>, <<"a", "-", "a", "p", "p", "l", "e", "-", "d", "a", "r", "w", "i", "n">>,
      <<"w", "a", "s", "m", "3", "2", "-", "a", "p", "p", "l", "e", "-", "e">>, <<"a", "-", "a", "p", "p", "l", "e", "-", "w", "i", "n", "d", "o", "w", "s", "-", "m", "s", "v", "c">> }

(***************************************************************************)
(* parse_crate_type on one file-name line                                  *)
(***************************************************************************)
\* a prefix or a suffix has at most MaxAffixLen characters
MaxAffixLen == 4

Affixes == SeqsUpTo({"_", "a", " "}, MaxAffixLen)

ParseInit ==
    /\ \E p \in Affixes, s \in Affixes :
          parseIn = [set |-> TRUE, prefix |-> p, suffix |-> s]
    /\ parseOut = NotCalled

\* parse_crate_type on the line made of the prefix, the separator and the
\* suffix, with no diagnostics
ParseLine ==
    /\ parseIn.set /\ ~parseOut.called
    /\ parseOut' = [called |-> TRUE,
                    out |-> parse_crate_type("bin", <<>>,
                               <<parseIn.prefix \o <<"_", "_", "_">> \o parseIn.suffix>>)]
    /\ UNCHANGED <<parseIn, flagVars, guardVars, infoVars, newVars, dataVars, raceVars>>

InitParse ==
    ParseInit /\ FlagIdle /\ GuardIdle /\ InfoIdle /\ NewIdle /\ DataIdle /\ RaceIdle

NextParse == ParseLine

SpecParse == InitParse /\ [][NextParse]_vars

(***************************************************************************)
(* TargetInfo::new: the batched query and the record built from it         *)
(***************************************************************************)
IdentChars ==
    {"a", "b", "c", "d", "e", "f", "g", "h", "i", "j", "k", "l", "m", "n", "o",
     "p", "q", "r", "s", "t", "u", "v", "w", "x", "y", "z", "_"}

IsIdent(s) == s # <<>> /\ \A i \in 1..Len(s) : s[i] \in IdentChars

CfgNamed(name) == [kind |-> "Name", name |-> name, value |-> <<>>]

CfgKeyPair(name, value) == [kind |-> "KeyPair", name |-> name, value |-> value]

\* Cfg::from_str: `name` or `name="value"`; anything else does not parse
Cfg_from_str(line) ==
    LET eq == Find(line, <<"=">>)
        name == SubSeq(line, 1, eq - 1)
        rest == SubSeq(line, eq + 1, Len(line))
    IN  IF IsIdent(line) THEN ROk(CfgNamed(line))
        ELSE IF /\ eq > 1
                /\ IsIdent(name)
                /\ Len(rest) >= 2
                /\ rest[1] = "\"" /\ rest[Len(rest)] = "\""
                /\ Find(SubSeq(rest, 2, Len(rest) - 1), <<"\"">>) = 0
        THEN ROk(CfgKeyPair(name, SubSeq(rest, 2, Len(rest) - 1)))
        ELSE RErr

\* a variant of the filter that lets every predicate through
not_user_specific_cfg_keeps_all(cfg) == TRUE

\* TargetInfo::not_user_specific_cfg
not_user_specific_cfg(cfg) ==
    ~(cfg.ok /\ cfg.val.kind = "Name" /\ cfg.val.name = <<"p", "r", "o", "c", "_", "m", "a", "c", "r", "o">>)

\* mutant: a predicate line that does not parse is skipped
RECURSIVE CollectCfgSkipsErrors(_, _)
CollectCfgSkipsErrors(lines, acc) ==
    IF lines = <<>> THEN ROk(acc)
    ELSE LET cfg == Cfg_from_str(Head(lines))
         IN  IF ~not_user_specific_cfg(cfg) \/ ~cfg.ok
             THEN CollectCfgSkipsErrors(Tail(lines), acc)
             ELSE CollectCfgSkipsErrors(Tail(lines), Append(acc, cfg.val))

\* lines.map(Cfg::from_str).filter(not_user_specific_cfg).collect(): the
\* parsed lines that pass the filter, or the first error
RECURSIVE CollectCfg(_, _)
CollectCfg(lines, acc) ==
    IF lines = <<>> THEN ROk(acc)
    ELSE LET cfg == Cfg_from_str(Head(lines))
         IN  IF ~not_user_specific_cfg(cfg) THEN CollectCfg(Tail(lines), acc)
             ELSE IF ~cfg.ok THEN RErr
             ELSE CollectCfg(Tail(lines), Append(acc, cfg.val))

\* the name of a predicate as the configuration keys of the model spell it
CfgWord(name) == IF name = <<"u", "n", "i", "x">> THEN "unix" ELSE "other"

\* Some(&cfg) as env_args reads it: the bare-name predicates
TargetCfgOf(cfg) ==
    Some({CfgWord(cfg[i].name) : i \in {j \in 1..Len(cfg) : cfg[j].kind = "Name"}})

\* a path: the line it starts from and the components pushed onto it
Path(root, pushed) == [root |-> root, pushed |-> pushed]

\* the triple a kind is built for, by name
ShortName(host_triple, kind) == IF is_host(kind) THEN host_triple ELSE kind.triple

NewOk(val, steps) == [ok |-> TRUE, val |-> val, steps |-> steps]

NewErr(steps) == [ok |-> FALSE, val |-> None, steps |-> steps]

\* a variant that takes split debug info as supported whatever the probe says
supports_split_debuginfo_always(split) == TRUE

\* lines 182-187: the probe's result is reduced to whether it succeeded
supports_split_debuginfo(split) == split

\* TargetInfo::new. `split` tells whether the -Csplit-debuginfo=packed probe
\* succeeded, `query` is what the batched query answers, `windows` is
\* cfg!(windows). `steps` lists what the call did, in order; the last step of
\* a failed call is the one that failed.
TargetInfo_new(config, env, requested_kinds, host_triple, kind, split, query, windows) ==
    LET rustflags0 == env_args(config, env, requested_kinds, host_triple, None,
                               kind, "RUSTFLAGS")
        process == [rustflags |-> rustflags0.val,
                    target |-> IF is_host(kind) THEN None ELSE Some(kind.triple)]
        new == NewCrateTypes(KNOWN_CRATE_TYPES, query.stderr, query.stdout, EmptyMap)
        sysroot == Path(Head(new.lines), <<>>)
        cfg == CollectCfg(Tail(new.lines), <<>>)
        rustflags == env_args(config, env, requested_kinds, host_triple,
                              TargetCfgOf(cfg.val), kind, "RUSTFLAGS")
        rustdocflags == env_args(config, env, requested_kinds, host_triple,
                                 TargetCfgOf(cfg.val), kind, "RUSTDOCFLAGS")
    IN  IF ~rustflags0.ok THEN NewErr(<<"rustflags0">>)
        ELSE IF ~query.ran THEN NewErr(<<"rustflags0", "split", "query">>)
        ELSE IF ~new.ok
        THEN NewErr(<<"rustflags0", "split", "query", "crate_types">>)
        ELSE IF new.lines = <<>>
        THEN NewErr(<<"rustflags0", "split", "query", "crate_types", "sysroot">>)
        ELSE IF ~cfg.ok
        THEN NewErr(<<"rustflags0", "split", "query", "crate_types", "sysroot",
                      "cfg">>)
        ELSE IF ~rustflags.ok
        THEN NewErr(<<"rustflags0", "split", "query", "crate_types", "sysroot",
                      "cfg", "rustflags">>)
        ELSE IF ~rustdocflags.ok
        THEN NewErr(<<"rustflags0", "split", "query", "crate_types", "sysroot",
                      "cfg", "rustflags", "rustdocflags">>)
        ELSE NewOk([crate_type_process |-> process,
                    crate_types |-> new.map,
                    sysroot |-> sysroot,
                    sysroot_host_libdir |->
                        Path(sysroot.root, IF windows THEN <<"bin">> ELSE <<"lib">>),
                    sysroot_target_libdir |->
                        Path(sysroot.root,
                             <<"lib", "rustlib", ShortName(host_triple, kind), "lib">>),
                    rustflags |-> rustflags.val,
                    rustdocflags |-> rustdocflags.val,
                    cfg |-> cfg.val,
                    supports_split_debuginfo |-> supports_split_debuginfo(split)],
                   <<"rustflags0", "split", "query", "crate_types", "sysroot",
                     "cfg", "rustflags", "rustdocflags">>)

(***************************************************************************)
(* Inputs of TargetInfo::new                                               *)
(***************************************************************************)
UnsupportedLine(crate_type) ==
    <<"w", "a", "r", "n", "i", "n", "g", ":", " ", "d", "r", "o", "p", "p", "i", "n", "g", " ", "u", "n", "s", "u", "p", "p", "o", "r", "t", "e", "d", " ", "c", "r", "a", "t", "e", " ", "t", "y", "p", "e", " ", "'">> \o as_str(crate_type)
        \o <<"'", " ", "f", "o", "r", " ", "t", "a", "r", "g", "e", "t">>

\* the six file-name lines of a target that supports every known crate type,
\* the root path, and predicate lines
KindLines ==
    << <<"_", "_", "_">>, <<"r", "_", "_", "_", ".", "r">>, <<"d", "_", "_", "_", ".", "d">>, <<"c", "_", "_", "_", ".", "c">>, <<"s", "_", "_", "_", ".", "s">>, <<"p", "_", "_", "_", ".", "p">> >>

RootLine == <<"/", "s">>

CfgLines == << <<"u", "n", "i", "x">>, <<"p", "r", "o", "c", "_", "m", "a", "c", "r", "o">>, <<"o", "s", "=", "\"", "l", "\"">>, <<"p", "r", "o", "c", "_", "m", "a", "c", "r", "o", "=", "\"", "x", "\"">> >>

\* answers of the batched query
NewQueries ==
    { \* the compiler cannot be run
      Output(FALSE, <<>>, <<>>),
      \* every crate type supported, with and without predicates
      Output(TRUE, KindLines \o <<RootLine>> \o CfgLines, <<>>),
      Output(TRUE, KindLines \o <<RootLine>>, <<>>),
      \* the dynamic crate types rejected, and one line per remaining type
      Output(TRUE,
             << KindLines[1], KindLines[2], KindLines[5], RootLine, <<"u", "n", "i", "x">> >>,
             << UnsupportedLine("dylib"), UnsupportedLine("cdylib"),
                UnsupportedLine("proc-macro") >>),
      \* the dynamic crate types rejected, but six lines all the same
      Output(TRUE, KindLines \o <<RootLine, <<"u", "n", "i", "x">>>>,
             << UnsupportedLine("dylib"), UnsupportedLine("cdylib"),
                UnsupportedLine("proc-macro") >>),
      \* every crate type rejected
      Output(TRUE, <<RootLine, <<"u", "n", "i", "x">>>>,
             [i \in 1..6 |-> UnsupportedLine(KNOWN_CRATE_TYPES[i])]),
      \* the message and the quoted name on two different lines
      Output(TRUE, Tail(KindLines) \o <<RootLine>>,
             << <<"e", "r", "r", "o", "r", ":", " ", "u", "n", "k", "n", "o", "w", "n", " ", "c", "r", "a", "t", "e", " ", "t", "y", "p", "e">>, <<"c", "r", "a", "t", "e", " ", "t", "y", "p", "e", " ", "'", "b", "i", "n", "'">> >>),
      \* the message and the quoted name on one line
      Output(TRUE, Tail(KindLines) \o <<RootLine>>,
             << <<"e", "r", "r", "o", "r", ":", " ", "u", "n", "k", "n", "o", "w", "n", " ", "c", "r", "a", "t", "e", " ", "t", "y", "p", "e", " ", "'", "b", "i", "n", "'">> >>),
      \* too few lines: for the crate types, for the root path
      Output(TRUE, SubSeq(KindLines, 1, 5), <<>>),
      Output(TRUE, KindLines, <<>>),
      \* a file-name line without the separator
      Output(TRUE, << KindLines[1], <<"l", "i", "b", "r", "_", "_", ".", "r">> >> \o SubSeq(KindLines, 3, 6)
                     \o <<RootLine>>, <<>>),
      \* predicate lines that do not parse
      Output(TRUE, KindLines \o <<RootLine, <<"u", "n", "i", "x">>, <<"=">>>>, <<>>),
      Output(TRUE, KindLines \o <<RootLine, <<"p", "r", "o", "c", "_", "m", "a", "c", "r", "o">>, <<>>, <<"u", "n", "i", "x">>>>, <<>>) }

NewConfigs ==
    { c \in Configs :
        \/ /\ c.byName = ByNameTable("none")
           /\ Len(c.cfgs) > 1
           /\ c.build = BuildTable("flags")
        \/ /\ c.byName = ByNameTable("flags")
           /\ c.cfgs = <<>>
           /\ c.build = BuildTable("none")
           /\ c.errAt = "none" }

NewEnvs ==
    { [n \in FlagNames |-> EnvUnset],
      [n \in FlagNames |->
          IF n = "RUSTFLAGS" THEN EnvStr(<<"a", " ", "b">>) ELSE EnvUnset],
      [n \in FlagNames |->
          IF n = "RUSTFLAGS" THEN EnvNotUnicode ELSE EnvStr(<<"d">>)] }

NewRequested == { <<Host>>, <<Target("x")>>, <<Host, Target("x")>> }

NewKinds == {Host, Target("x")}

NewInit ==
    /\ \E c \in NewConfigs, e \in NewEnvs, rk \in NewRequested, k \in NewKinds,
          sp \in BOOLEAN, q \in NewQueries, w \in BOOLEAN :
          newIn = [set |-> TRUE, config |-> c, env |-> e, requested_kinds |-> rk,
                   kind |-> k, split |-> sp, query |-> q, windows |-> w]
    /\ newOut = NotCalled

\* one call of TargetInfo::new on the inputs drawn
NewTargetInfo ==
    /\ newIn.set /\ ~newOut.called
    /\ newOut' = [called |-> TRUE,
                  out |-> TargetInfo_new(newIn.config, newIn.env,
                                         newIn.requested_kinds, HostTriple,
                                         newIn.kind, newIn.split, newIn.query,
                                         newIn.windows)]
    /\ UNCHANGED <<newIn, flagVars, guardVars, infoVars, dataVars, parseVars, raceVars>>

InitNew == NewInit /\ FlagIdle /\ GuardIdle /\ InfoIdle /\ DataIdle /\ ParseIdle /\ RaceIdle

NextNew == NewTargetInfo

SpecNew == InitNew /\ [][NextNew]_vars

(***************************************************************************)
(* TargetInfo: file_types, discover_crate_type, rustc_outputs              *)
(***************************************************************************)
FileType(flavor, crate_type, prefix, suffix, should_replace_hyphens) ==
    [flavor |-> flavor, crate_type |-> crate_type, prefix |-> prefix,
     suffix |-> suffix, should_replace_hyphens |-> should_replace_hyphens]

\* FileType::new_rmeta
new_rmeta == FileType("Rmeta", None, <<"l", "i", "b">>, <<".", "r", "m", "e", "t", "a">>, TRUE)

\* FileType::new_rcheck
new_rcheck == FileType("Rcheck", None, <<"l", "i", "b">>, <<".", "r", "c", "h", "e", "c", "k">>, TRUE)

\* discover_crate_type: the single-kind probe and the parse of its answer
discover_crate_type(crate_type, probe) ==
    IF ~probe.ran THEN RErr
    ELSE parse_crate_type(crate_type, probe.stderr, probe.stdout).res

\* a variant that writes a separate debug file for executables only
SeparateDebugFileBinOnly(crate_type) == crate_type = "bin"

\* the crate types whose output comes with a separate debug file
SeparateDebugFile(crate_type) == crate_type \in {"bin", "dylib", "cdylib", "proc-macro"}

\* a variant that names every Apple debug bundle after a dynamic library
DsymSuffixDylib(crate_type) == <<".", "d", "y", "l", "i", "b", ".", "d", "S", "Y", "M">>

\* the suffix of the Apple debug bundle
DsymSuffix(crate_type) ==
    IF crate_type = "bin" THEN <<".", "d", "S", "Y", "M">> ELSE <<".", "d", "y", "l", "i", "b", ".", "d", "S", "Y", "M">>

\* file_types, lines 311-423: the primary file and its platform companions
FileTypesOf(crate_type, flavor, target_triple, prefix, suffix) ==
    LET primary ==
            << FileType(flavor, Some(crate_type), prefix, suffix, crate_type # "bin") >>
        windows ==
            IF ~is_dynamic(crate_type) THEN <<>>
            ELSE IF EndsWith(target_triple, <<"-", "w", "i", "n", "d", "o", "w", "s", "-", "m", "s", "v", "c">>) /\ suffix = <<".", "d", "l", "l">>
            THEN << FileType("Auxiliary", Some(crate_type), prefix, <<".", "d", "l", "l", ".", "l", "i", "b">>, TRUE),
                    FileType("Auxiliary", Some(crate_type), prefix, <<".", "d", "l", "l", ".", "e", "x", "p">>, TRUE) >>
            ELSE IF EndsWith(target_triple, <<"w", "i", "n", "d", "o", "w", "s", "-", "g", "n", "u">>) /\ suffix = <<".", "d", "l", "l">>
            THEN << FileType("Auxiliary", Some(crate_type), <<"l", "i", "b">>, <<".", "d", "l", "l", ".", "a">>, TRUE) >>
            ELSE <<>>
        wasm ==
            IF StartsWith(target_triple, <<"w", "a", "s", "m", "3", "2", "-">>) /\ crate_type = "bin" /\ suffix = <<".", "j", "s">>
            THEN << FileType("Auxiliary", Some(crate_type), prefix, <<".", "w", "a", "s", "m">>, TRUE),
                    FileType("DebugInfo", Some(crate_type), prefix, <<".", "w", "a", "s", "m", ".", "m", "a", "p">>, TRUE) >>
            ELSE <<>>
        is_apple == Contains(target_triple, <<"-", "a", "p", "p", "l", "e", "-">>)
        debug ==
            IF ~SeparateDebugFile(crate_type) THEN <<>>
            ELSE IF is_apple
            THEN << FileType("DebugInfo", Some(crate_type), prefix,
                             DsymSuffix(crate_type),
                             FALSE) >>
            ELSE IF EndsWith(target_triple, <<"-", "m", "s", "v", "c">>)
            THEN << FileType("DebugInfo", Some(crate_type), prefix, <<".", "p", "d", "b">>, TRUE) >>
            ELSE <<>>
    IN  primary \o windows \o wasm \o debug

Call(map, res, probed) == [map |-> map, res |-> res, probed |-> probed]

Probed(crate_type, ok) == [crate_type |-> crate_type, ok |-> ok]

\* mutant: the result of the probe is used but not inserted into the table
file_types_no_insert(map, crate_type, flavor, target_triple, probe) ==
    LET ct == IF crate_type = "lib" THEN "rlib" ELSE crate_type
        value == discover_crate_type(ct, probe)
        info == IF map[ct].stored THEN map[ct].val ELSE value.val
    IN  IF ~map[ct].stored /\ ~value.ok THEN Call(map, RErr, <<Probed(ct, FALSE)>>)
        ELSE Call(map,
                  IF info.some
                  THEN ROk(Some(FileTypesOf(ct, flavor, target_triple,
                                            info.val[1], info.val[2])))
                  ELSE ROk(None),
                  IF map[ct].stored THEN <<>> ELSE <<Probed(ct, TRUE)>>)

\* a variant that looks lib up under its own name
file_types_keeps_lib(map, crate_type, flavor, target_triple, probe) ==
    LET ct == crate_type
        value == discover_crate_type(ct, probe)
        after == IF map[ct].stored THEN map
                 ELSE [map EXCEPT ![ct] = Stored(value.val)]
        info == after[ct].val
    IN  IF ~map[ct].stored /\ ~value.ok THEN Call(map, RErr, <<Probed(ct, FALSE)>>)
        ELSE Call(after,
                  IF info.some
                  THEN ROk(Some(FileTypesOf(ct, flavor, target_triple,
                                            info.val[1], info.val[2])))
                  ELSE ROk(None),
                  IF map[ct].stored THEN <<>> ELSE <<Probed(ct, TRUE)>>)

\* a variant that stores the crate type as absent when its probe fails
file_types_stores_failure(map, crate_type, flavor, target_triple, probe) ==
    LET ct == IF crate_type = "lib" THEN "rlib" ELSE crate_type
        value == discover_crate_type(ct, probe)
        after == IF map[ct].stored THEN map
                 ELSE [map EXCEPT ![ct] = Stored(value.val)]
        info == after[ct].val
    IN  IF ~map[ct].stored /\ ~value.ok
        THEN Call([map EXCEPT ![ct] = Stored(None)], RErr, <<Probed(ct, FALSE)>>)
        ELSE Call(after,
                  IF info.some
                  THEN ROk(Some(FileTypesOf(ct, flavor, target_triple,
                                            info.val[1], info.val[2])))
                  ELSE ROk(None),
                  IF map[ct].stored THEN <<>> ELSE <<Probed(ct, TRUE)>>)

\* file_types: `map` is the memo table, `probe` what the compiler answers if
\* discover_crate_type is called. Gives the table afterwards, the result, and
\* the probes made.
file_types(map, crate_type, flavor, target_triple, probe) ==
    LET ct == IF crate_type = "lib" THEN "rlib" ELSE crate_type
        value == discover_crate_type(ct, probe)
        after == IF map[ct].stored THEN map
                 ELSE [map EXCEPT ![ct] = Stored(value.val)]
        info == after[ct].val
    IN  IF ~map[ct].stored /\ ~value.ok THEN Call(map, RErr, <<Probed(ct, FALSE)>>)
        ELSE Call(after,
                  IF info.some
                  THEN ROk(Some(FileTypesOf(ct, flavor, target_triple,
                                            info.val[1], info.val[2])))
                  ELSE ROk(None),
                  IF map[ct].stored THEN <<>> ELSE <<Probed(ct, TRUE)>>)

Outputs(result, unsupported) == [result |-> result, unsupported |-> unsupported]

\* calc_rustc_outputs, the loop: one file_types per requested crate type, in
\* order; the first error ends the call
RECURSIVE CalcLoop(_, _, _, _, _, _, _)
CalcLoop(todo, map, target_triple, probeOf, result, unsupported, probed) ==
    IF todo = <<>> THEN Call(map, ROk(Outputs(result, unsupported)), probed)
    ELSE LET crate_type == Head(todo)
             flavor == IF is_linkable(crate_type) THEN "Linkable" ELSE "Normal"
             c == file_types(map, crate_type, flavor, target_triple,
                             probeOf[crate_type])
         IN  IF ~c.res.ok THEN Call(c.map, RErr, probed \o c.probed)
             ELSE IF c.res.val.some
             THEN CalcLoop(Tail(todo), c.map, target_triple, probeOf,
                           result \o c.res.val.val, unsupported, probed \o c.probed)
             ELSE CalcLoop(Tail(todo), c.map, target_triple, probeOf,
                           result, unsupported \o <<crate_type>>, probed \o c.probed)

\* a variant that adds the metadata-only descriptor whenever anything was
\* produced, whatever the requested crate types require
calc_rustc_outputs_always_rmeta(map, crate_types_, target_triple, probeOf) ==
    LET c == CalcLoop(crate_types_, map, target_triple, probeOf, <<>>, <<>>, <<>>)
    IN  IF ~c.res.ok THEN c
        ELSE IF c.res.val.result # <<>>
        THEN Call(c.map,
                  ROk(Outputs(c.res.val.result \o <<new_rmeta>>, c.res.val.unsupported)),
                  c.probed)
        ELSE c

\* calc_rustc_outputs
calc_rustc_outputs(map, crate_types_, target_triple, probeOf) ==
    LET c == CalcLoop(crate_types_, map, target_triple, probeOf, <<>>, <<>>, <<>>)
    IN  IF ~c.res.ok THEN c
        ELSE IF c.res.val.result # <<>>
                /\ ~\E j \in 1..Len(crate_types_) :
                        requires_upstream_objects(crate_types_[j])
        THEN Call(c.map,
                  ROk(Outputs(c.res.val.result \o <<new_rmeta>>, c.res.val.unsupported)),
                  c.probed)
        ELSE c

CompileModes == {"Build", "Test", "Bench", "Check", "CheckRustc", "Doc"}

Panic == [ok |-> FALSE, val |-> Some(<<"panic">>)]

\* rustc_outputs; `crate_types_` is target_kind.rustc_crate_types()
rustc_outputs(map, mode, crate_types_, target_triple, probeOf) ==
    CASE mode = "Build" -> calc_rustc_outputs(map, crate_types_, target_triple, probeOf)
      [] mode \in {"Test", "Bench"} ->
            LET c == file_types(map, "bin", "Normal", target_triple, probeOf["bin"])
            IN  IF ~c.res.ok THEN c
                ELSE IF c.res.val.some
                THEN Call(c.map, ROk(Outputs(c.res.val.val, <<>>)), c.probed)
                ELSE Call(c.map, ROk(Outputs(<<>>, <<"bin">>)), c.probed)
      [] mode = "Check" -> Call(map, ROk(Outputs(<<new_rmeta>>, <<>>)), <<>>)
      [] mode = "CheckRustc" -> Call(map, ROk(Outputs(<<new_rcheck>>, <<>>)), <<>>)
      [] OTHER -> Call(map, Panic, <<>>)

(***************************************************************************)
(* TargetInfo: state and calls                                             *)
(***************************************************************************)
\* a kind is probed at most MaxProbes times in a run of the model
MaxProbes == 2

\* target_kind.rustc_crate_types() has at most MaxCrateTypes entries
MaxCrateTypes == 2

FileFlavors == {"Normal", "Linkable"}

NoCall == [op |-> "none"]

NoProbes == [c \in CrateTypes |-> [ok |-> 0, failed |-> 0]]

\* the probes of one call added to the counts
Counted(count, probed) ==
    [c \in CrateTypes |->
        [ok |-> count[c].ok
                  + Cardinality({j \in 1..Len(probed) : probed[j] = Probed(c, TRUE)}),
         failed |-> count[c].failed
                  + Cardinality({j \in 1..Len(probed) : probed[j] = Probed(c, FALSE)})]]

WithinProbes(count) ==
    \A c \in CrateTypes : count[c].ok + count[c].failed <= MaxProbes

\* the record as a successful TargetInfo::new leaves it: the table holds an
\* entry for each known crate type, parsed from the answer of the batched
\* query; newIn and newOut keep the call that built the record
InfoInit ==
    /\ \E q \in BatchedOutputs :
          /\ newIn = [set |-> TRUE,
                      config |-> [byName |-> ByNameTable("none"), cfgs |-> <<>>,
                                  build |-> BuildTable("none"), errAt |-> "none"],
                      env |-> [n \in FlagNames |-> EnvUnset],
                      requested_kinds |-> <<Host>>, kind |-> Host,
                      split |-> TRUE, query |-> q, windows |-> FALSE]
          /\ newOut = [called |-> TRUE,
                       out |-> TargetInfo_new(newIn.config, newIn.env,
                                              newIn.requested_kinds, HostTriple,
                                              newIn.kind, newIn.split, newIn.query,
                                              newIn.windows)]
          /\ newOut.out.ok
          /\ crate_types = newOut.out.val.crate_types
    /\ probes = NoProbes
    /\ lastCall = NoCall

\* what the compiler answers to the single-kind probes a call may make: only
\* a crate type that is among `asked` and has no entry can be probed
ProbeAnswers(asked) ==
    {[c \in CrateTypes |->
         IF c \in OtherCrateTypes THEN f[c] ELSE Output(FALSE, <<>>, <<>>)] :
     f \in {g \in [OtherCrateTypes ->
                      UNION {ProbeOutputs(c) : c \in OtherCrateTypes}] :
                \A c \in OtherCrateTypes :
                    g[c] \in (IF c \in asked /\ ~crate_types[c].stored
                              THEN ProbeOutputs(c)
                              ELSE {Output(FALSE, <<>>, <<>>)})}}

\* the crate type lists rustc_outputs is called with; only Build reads the list
BuildLists == SeqsUpTo(CrateTypes, MaxCrateTypes)

CrateTypeLists(mode) ==
    IF mode = "Build" THEN BuildLists ELSE {<<>>, <<"lib">>}

\* the call `c` takes effect; `how` is the flavor asked of file_types or the
\* mode asked of rustc_outputs, `probeOf` what the compiler would answer
Called(op, crate_types_, how, target_triple, probeOf, c) ==
    /\ \E count \in {Counted(probes, c.probed)} :
          WithinProbes(count) /\ probes' = count
    /\ crate_types' = c.map
    /\ lastCall' = [op |-> op, crate_types |-> crate_types_, how |-> how,
                    target_triple |-> target_triple, before |-> crate_types,
                    answers |-> probeOf, res |-> c.res, probed |-> c.probed]
    /\ UNCHANGED <<flagVars, guardVars, newVars, dataVars, parseVars, raceVars>>

\* one call of file_types, made once the caller has taken the result of the
\* call before
FileTypesCall ==
    /\ lastCall = NoCall
    /\ \E crate_type \in CrateTypes, flavor \in FileFlavors,
          target_triple \in TargetTriples :
          \E probeOf \in ProbeAnswers({crate_type}) :
             \E c \in {file_types(crate_types, crate_type, flavor, target_triple,
                                  probeOf[crate_type])} :
                Called("file_types", <<crate_type>>, flavor, target_triple,
                       probeOf, c)

\* one call of rustc_outputs
RustcOutputsCall ==
    /\ lastCall = NoCall
    /\ \E mode \in CompileModes, target_triple \in TargetTriples :
          \E crate_types_ \in CrateTypeLists(mode) :
             \E probeOf \in ProbeAnswers(IF mode = "Build" THEN Range(crate_types_)
                                         ELSE {}) :
                \E c \in {rustc_outputs(crate_types, mode, crate_types_,
                                        target_triple, probeOf)} :
                   Called("rustc_outputs", crate_types_, mode, target_triple,
                          probeOf, c)

\* the caller takes the result of the call
Return ==
    /\ lastCall # NoCall
    /\ lastCall' = NoCall
    /\ UNCHANGED <<crate_types, probes, flagVars, guardVars, newVars, dataVars, parseVars, raceVars>>

Init == InfoInit /\ FlagIdle /\ GuardIdle /\ DataIdle /\ ParseIdle /\ RaceIdle

Next ==
    \/ FileTypesCall
    \/ RustcOutputsCall
    \/ Return

Spec == Init /\ [][Next]_vars

(***************************************************************************)
(* TargetInfo: callers that share one record, step by step                 *)
(***************************************************************************)
\* the callers of file_types on one record
Workers == {"w1", "w2"}

\* what they ask about: two crate types the batched query did not cover, and
\* two it did
RaceCrateTypes == {"o1", "o2", "bin", "lib"}

RaceFlavor == "Normal"

RaceTriple == <<"l", "-", "l", "i", "n", "u", "x", "-", "g", "n", "u">>

NoAnswer == Output(FALSE, <<>>, <<>>)

\* a worker is outside file_types ("idle", or "done" with its result), or
\* inside: the entry it looked up is "vacant" or "occupied", the probed
\* value waits for its "insert", or the probe "failed"
WorkerIdle(map) ==
    [pc |-> "idle", crate_type |-> "", seen |-> map, probe |-> NoAnswer,
     value |-> None, res |-> RErr]

\* a variant of the borrow that succeeds whoever holds the table
try_borrow_mut_shared(holders) == TRUE

\* line 298, self.crate_types.borrow_mut(): the RefCell of line 33 hands the
\* table out only while nobody holds it (and is not Sync: the calls on one
\* record come one after another)
try_borrow_mut(holders) == holders = {}

\* lines 292-299: the Lib alias is rewritten, the table borrowed and the
\* entry looked up; `seen` keeps the table as the worker found it
Enter(w) ==
    /\ workers[w].pc \in {"idle", "done"}
    /\ try_borrow_mut(borrowed)
    /\ \E crate_type \in RaceCrateTypes :
          LET ct == IF crate_type = "lib" THEN "rlib" ELSE crate_type
          IN  /\ crate_types[ct].stored
                    \/ probes[ct].ok + probes[ct].failed < MaxProbes
              /\ workers' = [workers EXCEPT ![w] =
                                [pc |-> IF crate_types[ct].stored THEN "occupied"
                                        ELSE "vacant",
                                 crate_type |-> ct, seen |-> crate_types,
                                 probe |-> NoAnswer, value |-> None, res |-> RErr]]
    /\ borrowed' = borrowed \cup {w}
    /\ UNCHANGED <<infoVars, flagVars, guardVars, newVars, dataVars, parseVars>>

\* line 303, discover_crate_type(v.key())?: the probe runs while the table is
\* borrowed; an error leaves the function
Discover(w) ==
    /\ workers[w].pc = "vacant"
    /\ \E probe \in ProbeOutputs(workers[w].crate_type) :
          \E value \in {discover_crate_type(workers[w].crate_type, probe)} :
             /\ workers' = [workers EXCEPT ![w].pc = IF value.ok THEN "insert"
                                                     ELSE "failed",
                                           ![w].probe = probe,
                                           ![w].value = value.val]
             /\ probes' = [probes EXCEPT ![workers[w].crate_type] =
                              IF value.ok THEN [@ EXCEPT !.ok = @ + 1]
                              ELSE [@ EXCEPT !.failed = @ + 1]]
    /\ UNCHANGED <<crate_types, lastCall, borrowed, flagVars, guardVars, newVars,
                   dataVars, parseVars>>

\* line 304, v.insert(value)
Insert(w) ==
    /\ workers[w].pc = "insert"
    /\ crate_types' = [crate_types EXCEPT ![workers[w].crate_type] =
                          Stored(workers[w].value)]
    /\ workers' = [workers EXCEPT ![w].pc = "occupied"]
    /\ UNCHANGED <<probes, lastCall, borrowed, flagVars, guardVars, newVars,
                   dataVars, parseVars>>

\* lines 307-423 and the return: the result is built from the entry, or is
\* the error of the probe; the borrow ends with the call
Finish(w) ==
    /\ workers[w].pc \in {"occupied", "failed"}
    /\ workers' = [workers EXCEPT
          ![w].pc = "done",
          ![w].res =
              IF workers[w].pc = "failed" THEN RErr
              ELSE IF crate_types[workers[w].crate_type].val.some
              THEN ROk(Some(FileTypesOf(workers[w].crate_type, RaceFlavor, RaceTriple,
                                        crate_types[workers[w].crate_type].val.val[1],
                                        crate_types[workers[w].crate_type].val.val[2])))
              ELSE ROk(None)]
    /\ borrowed' = borrowed \ {w}
    /\ UNCHANGED <<infoVars, flagVars, guardVars, newVars, dataVars, parseVars>>

RaceInit ==
    /\ InfoInit
    /\ workers = [w \in Workers |-> WorkerIdle(crate_types)]
    /\ borrowed = {}

InitRace == RaceInit /\ FlagIdle /\ GuardIdle /\ DataIdle /\ ParseIdle

NextRace ==
    \E w \in Workers :
       \/ Enter(w)
       \/ Discover(w)
       \/ Insert(w)
       \/ Finish(w)

SpecRace == InitRace /\ [][NextRace]_vars

(***************************************************************************)
(* RustcTargetData: the repository of capability records                   *)
(***************************************************************************)
\* the key of a kind in the inputs: the query a kind issues differs in its
\* --target argument
QueryKey(kind) == IF is_host(kind) THEN "host" ELSE kind.triple

\* config.target_cfg_triple(triple)
TargetConfigOf(triple) == [triple |-> triple]

Step(op, kind, ok) == [op |-> op, kind |-> kind, ok |-> ok]

DataOk(val, log) == [ok |-> TRUE, val |-> val, log |-> log]

DataErr(log) == [ok |-> FALSE, val |-> None, log |-> log]

NoEntries == [t \in Triples |-> Vacant]

\* the kinds, numbered
KindIndex(kind) ==
    IF is_host(kind) THEN 1 ELSE IF kind.triple = HostTriple THEN 2 ELSE 3

\* TargetInfo::new as RustcTargetData::new calls it, for each kind by number
NewOfKinds(in) ==
    << TargetInfo_new(in.config, in.env, in.requested_kinds, HostTriple, Host,
                      in.split, in.queryOf[QueryKey(Host)], in.windows),
       TargetInfo_new(in.config, in.env, in.requested_kinds, HostTriple,
                      Target(HostTriple), in.split,
                      in.queryOf[QueryKey(Target(HostTriple))], in.windows),
       TargetInfo_new(in.config, in.env, in.requested_kinds, HostTriple,
                      Target("x"), in.split, in.queryOf[QueryKey(Target("x"))],
                      in.windows) >>

\* a variant that leaves out the members' forced kinds
RECURSIVE MemberKindsDefaultOnly(_)
MemberKindsDefaultOnly(members) ==
    IF members = <<>> THEN <<>>
    ELSE (IF Head(members).default_kind.some
          THEN <<Head(members).default_kind.val>> ELSE <<>>)
         \o MemberKindsDefaultOnly(Tail(members))

\* all_kinds: the requested kinds, then each member's default kind and forced
\* kind
RECURSIVE MemberKinds(_)
MemberKinds(members) ==
    IF members = <<>> THEN <<>>
    ELSE (IF Head(members).default_kind.some
          THEN <<Head(members).default_kind.val>> ELSE <<>>)
         \o (IF Head(members).forced_kind.some
             THEN <<Head(members).forced_kind.val>> ELSE <<>>)
         \o MemberKinds(Tail(members))

Maps(ok, config, infos, log) ==
    [ok |-> ok, target_config |-> config, target_info |-> infos, log |-> log]

\* a variant of the body of the loop that does not look whether the maps
\* hold the target already
AddKindAgain(kind, in, newOf, acc) ==
    LET t == kind.triple
        configOk == in.failAt # <<"target_cfg_triple", t>>
        log1 == Append(acc.log, Step("target_cfg_triple", kind, configOk))
        config1 == [acc.target_config EXCEPT ![t] = Stored(TargetConfigOf(t))]
        new == newOf[KindIndex(kind)]
    IN  IF is_host(kind) THEN acc
        ELSE IF ~configOk
        THEN Maps(FALSE, acc.target_config, acc.target_info, log1)
        ELSE IF ~new.ok
        THEN Maps(FALSE, config1, acc.target_info,
                     Append(log1, Step("TargetInfo::new", kind, FALSE)))
        ELSE Maps(TRUE, config1,
                     [acc.target_info EXCEPT ![t] = Stored(new.val)],
                     Append(log1, Step("TargetInfo::new", kind, TRUE)))

\* RustcTargetData::new, lines 750-761, the body of the loop: a Target kind
\* gets a configuration entry and a record unless it has them; `in` holds
\* what the configuration answers, `newOf` what TargetInfo::new returns for
\* each kind, `acc` the two maps and the log of the lookups and probes made
AddKind(kind, in, newOf, acc) ==
    LET t == kind.triple
        needConfig == ~acc.target_config[t].stored
        configOk == in.failAt # <<"target_cfg_triple", t>>
        log1 == IF needConfig
                THEN Append(acc.log, Step("target_cfg_triple", kind, configOk))
                ELSE acc.log
        config1 == IF needConfig
                   THEN [acc.target_config EXCEPT ![t] = Stored(TargetConfigOf(t))]
                   ELSE acc.target_config
        needInfo == ~acc.target_info[t].stored
        new == newOf[KindIndex(kind)]
    IN  IF is_host(kind) THEN acc
        ELSE IF needConfig /\ ~configOk
        THEN Maps(FALSE, acc.target_config, acc.target_info, log1)
        ELSE IF ~needInfo THEN Maps(TRUE, config1, acc.target_info, log1)
        ELSE IF ~new.ok
        THEN Maps(FALSE, config1, acc.target_info,
                     Append(log1, Step("TargetInfo::new", kind, FALSE)))
        ELSE Maps(TRUE, config1,
                     [acc.target_info EXCEPT ![t] = Stored(new.val)],
                     Append(log1, Step("TargetInfo::new", kind, TRUE)))

\* RustcTargetData::new, lines 749-762: the loop over all_kinds; the first
\* error ends it
RECURSIVE AddKinds(_, _, _, _)
AddKinds(kinds, in, newOf, acc) ==
    IF kinds = <<>> \/ ~acc.ok THEN acc
    ELSE CHOOSE r \in {AddKinds(Tail(kinds), in, newOf, next) :
                          next \in {AddKind(Head(kinds), in, newOf, acc)}} : TRUE

\* RustcTargetData::new; `newOf` is what TargetInfo::new returns for each kind
RustcTargetData_new(in, newOf) ==
    LET host_info == newOf[KindIndex(Host)]
        hostRequested ==
            \E i \in 1..Len(in.requested_kinds) : is_host(in.requested_kinds[i])
        log3 == << Step("load_global_rustc", Host, TRUE),
                   Step("target_cfg_triple", Host, TRUE),
                   Step("TargetInfo::new", Host, TRUE) >>
        target_config == IF hostRequested
                         THEN [NoEntries EXCEPT ![HostTriple] =
                                  Stored(TargetConfigOf(HostTriple))]
                         ELSE NoEntries
        target_info == IF hostRequested
                       THEN [NoEntries EXCEPT ![HostTriple] = Stored(host_info.val)]
                       ELSE NoEntries
        all_kinds == in.requested_kinds \o MemberKinds(in.members)
        added == AddKinds(all_kinds, in, newOf,
                          Maps(TRUE, target_config, target_info, log3))
    IN  IF in.failAt = <<"load_global_rustc">>
        THEN DataErr(<< Step("load_global_rustc", Host, FALSE) >>)
        ELSE IF in.failAt = <<"target_cfg_triple", HostTriple>>
        THEN DataErr(<< Step("load_global_rustc", Host, TRUE),
                        Step("target_cfg_triple", Host, FALSE) >>)
        ELSE IF ~host_info.ok
        THEN DataErr(<< Step("load_global_rustc", Host, TRUE),
                        Step("target_cfg_triple", Host, TRUE),
                        Step("TargetInfo::new", Host, FALSE) >>)
        ELSE IF hostRequested /\ in.failAt = <<"CompileTarget::new">>
        THEN DataErr(Append(log3, Step("CompileTarget::new", Host, FALSE)))
        ELSE IF ~added.ok THEN DataErr(added.log)
        ELSE DataOk([rustc |-> [host |-> HostTriple],
                     requested_kinds |-> in.requested_kinds,
                     host_config |-> TargetConfigOf(HostTriple),
                     host_info |-> host_info.val,
                     target_config |-> added.target_config,
                     target_info |-> added.target_info],
                    added.log)

\* RustcTargetData::info; indexing a map by a key it does not hold panics
info(res, kind) ==
    IF is_host(kind) THEN ROk(res.host_info)
    ELSE IF res.target_info[kind.triple].stored
    THEN ROk(res.target_info[kind.triple].val)
    ELSE Panic

\* RustcTargetData::target_config
target_config(res, kind) ==
    IF is_host(kind) THEN ROk(res.host_config)
    ELSE IF res.target_config[kind.triple].stored
    THEN ROk(res.target_config[kind.triple].val)
    ELSE Panic

(***************************************************************************)
(* RustcTargetData: inputs, construction and lookups                       *)
(***************************************************************************)
\* a workspace has at most MaxMembers members
MaxMembers == 1

Member(default_kind, forced_kind) ==
    [default_kind |-> default_kind, forced_kind |-> forced_kind]

Members ==
    { Member(None, None), Member(Some(Target("x")), None),
      Member(None, Some(Target("x"))), Member(Some(Host), None),
      Member(Some(Target(HostTriple)), Some(Target("x"))) }

DataRequested == SeqsUpTo(CompileKinds, MaxRequested)

QueryKeys == {QueryKey(k) : k \in CompileKinds}

\* the batched query answers well for every kind but at most one
DataQueries ==
    { [k \in QueryKeys |->
          IF k = bad THEN q ELSE Output(TRUE, KindLines \o <<RootLine, <<"u", "n", "i", "x">>>>, <<>>)] :
      bad \in QueryKeys, q \in NewQueries }

\* the step outside the batched queries that fails, if any
DataFailures ==
    { <<>>, <<"load_global_rustc">>, <<"CompileTarget::new">> }
        \cup { <<"target_cfg_triple", t>> : t \in Triples }

DataInit ==
    /\ \E rk \in DataRequested, ms \in SeqsUpTo(Members, MaxMembers),
          qs \in DataQueries, f \in DataFailures :
          dataIn = [set |-> TRUE,
                    config |-> [byName |-> ByNameTable("flags"), cfgs |-> <<>>,
                                build |-> BuildTable("none"), errAt |-> "none"],
                    env |-> [n \in FlagNames |-> EnvUnset],
                    requested_kinds |-> rk, members |-> ms, split |-> TRUE,
                    queryOf |-> qs, windows |-> FALSE, failAt |-> f]
    /\ data = NotCalled
    /\ lastLookup = NoLookup

\* RustcTargetData::new on the inputs drawn
NewRustcTargetData ==
    /\ dataIn.set /\ ~data.called
    /\ \E newOf \in {NewOfKinds(dataIn)} :
          data' = [called |-> TRUE, out |-> RustcTargetData_new(dataIn, newOf)]
    /\ UNCHANGED <<dataIn, lastLookup, flagVars, guardVars, infoVars, newVars, parseVars, raceVars>>

\* a lookup in the repository that was built
LookupInfo ==
    /\ data.called /\ data.out.ok
    /\ \E kind \in CompileKinds :
          lastLookup' = [op |-> "info", kind |-> kind, res |-> info(data.out.val, kind)]
    /\ UNCHANGED <<dataIn, data, flagVars, guardVars, infoVars, newVars, parseVars, raceVars>>

LookupTargetConfig ==
    /\ data.called /\ data.out.ok
    /\ \E kind \in CompileKinds :
          lastLookup' = [op |-> "target_config", kind |-> kind,
                         res |-> target_config(data.out.val, kind)]
    /\ UNCHANGED <<dataIn, data, flagVars, guardVars, infoVars, newVars, parseVars, raceVars>>

InitData == DataInit /\ FlagIdle /\ GuardIdle /\ InfoIdle /\ NewIdle /\ ParseIdle /\ RaceIdle

NextData ==
    \/ NewRustcTargetData
    \/ LookupInfo
    \/ LookupTargetConfig

SpecData == InitData /\ [][NextData]_vars

(***************************************************************************)
(* Rustdoc fingerprint guard: state                                        *)
(***************************************************************************)
Versions == {"v1", "v2"}

\* the file .rustdoc_fingerprint.json: missing, not readable as a string,
\* text that is no RustDocFingerprint, or the JSON of one
FileMissing == [tag |-> "missing", rustc_vv |-> ""]

FileNotText == [tag |-> "not_text", rustc_vv |-> ""]

FileGarbage == [tag |-> "garbage", rustc_vv |-> ""]

\* serde_json::to_string(&RustDocFingerprint { rustc_vv })
to_string(fingerprint) == [tag |-> "json", rustc_vv |-> fingerprint.rustc_vv]

RustDocFingerprint(vv) == [rustc_vv |-> vv]

FileStates ==
    {FileMissing, FileNotText, FileGarbage}
        \cup {to_string(RustDocFingerprint(v)) : v \in Versions}

\* paths::read: fails for a missing file and for one that is not UTF-8 text
read(file) ==
    IF file.tag \in {"missing", "not_text"} THEN None ELSE Some(file)

\* serde_json::from_str::<RustDocFingerprint>
from_str(text) ==
    IF text.tag = "json" THEN Some(RustDocFingerprint(text.rustc_vv)) ELSE None

\* the build kinds of the build (bcx.all_kinds), each with its own doc directory
AllKinds == {Host, Target("x")}

\* directory entries: the name as written, whether OsStr::to_str succeeds on
\* it, and whether the entry is a directory
DirEntry(name, utf8, isDir) == [name |-> name, utf8 |-> utf8, isDir |-> isDir]

Entries ==
    { DirEntry(<<".", "l">>, TRUE, FALSE),
      DirEntry(<<"i", ".", "h">>, TRUE, FALSE),
      DirEntry(<<"s">>, TRUE, TRUE),
      DirEntry(<<".", "x">>, FALSE, FALSE) }

NoDir == [exists |-> FALSE, entries |-> {}]

Dir(es) == [exists |-> TRUE, entries |-> es]

\* OsStr::to_str
to_str(entry) == IF entry.utf8 THEN Some(entry.name) ELSE None

\* file_name().to_str().map_or(false, |name| name.starts_with('.'))
IsKept(entry) ==
    IF to_str(entry).some THEN StartsWith(to_str(entry).val, <<".">>) ELSE FALSE

\* the entries clean_doc removes when nothing fails
Removable(es) == {e \in es : ~IsKept(e)}

\* clean_doc returning Ok: every entry that is not kept is removed
clean_doc(dir) == Dir(dir.entries \ Removable(dir.entries))

\* clean_doc returning Err part-way: the entries in `removed` are gone
clean_doc_failed(dir, removed) == Dir(dir.entries \ removed)

(***************************************************************************)
(* check_rustdoc_fingerprint                                               *)
(***************************************************************************)
OpRead == [op |-> "read", kind |-> Host, ok |-> TRUE]

OpPurge(kind, ok) == [op |-> "purge", kind |-> kind, ok |-> ok]

OpWrite(ok) == [op |-> "write", kind |-> Host, ok |-> ok]

\* a variant of the write that leaves the file as it is and reports success
write_fingerprint_keeps(file, vv, wfail) == file

\* paths::write(&fingerprint_path, ..): wfail is "no", or how a failed write
\* leaves the file ("untouched", or "truncated": empty, so unparseable)
write_fingerprint(file, vv, wfail) ==
    CASE wfail = "no" -> to_string(RustDocFingerprint(vv))
      [] wfail = "truncated" -> FileGarbage
      [] OTHER -> file

WriteFailures == {"no", "untouched", "truncated"}

\* mutant: a record that does not parse is handled like a missing one
DecideUnparseableUnknown(file, vv) ==
    IF ~read(file).some THEN "write"
    ELSE IF ~from_str(read(file).val).some THEN "write"
    ELSE IF from_str(read(file).val).val.rustc_vv = vv THEN "noop"
    ELSE "purge"

\* mutant: a record that cannot be read is handled like a mismatch
DecideUnreadablePurge(file, vv) ==
    IF ~read(file).some THEN "purge"
    ELSE IF from_str(read(file).val).some
            /\ from_str(read(file).val).val.rustc_vv = vv THEN "noop"
    ELSE "purge"

\* mutant: the comparison of the two version strings is inverted
DecideInverted(file, vv) ==
    IF ~read(file).some THEN "write"
    ELSE IF from_str(read(file).val).some
            /\ from_str(read(file).val).val.rustc_vv # vv THEN "noop"
    ELSE "purge"

\* what the guard does after reading the record: "write" (Err(_) => return
\* write_fingerprint()), "noop" (versions equal), or "purge" (fall through)
Decide(file, vv) ==
    IF ~read(file).some THEN "write"
    ELSE IF from_str(read(file).val).some
            /\ from_str(read(file).val).val.rustc_vv = vv THEN "noop"
    ELSE "purge"

\* all_kinds.iter().map(doc).filter(|path| path.exists())
Existing(order, d) == SelectSeq(order, LAMBDA k : d[k].exists)

\* try_for_each(clean_doc): the directories are cleaned in order; failAt = 0
\* when none fails, else the position of the one that fails, having removed
\* `removed`; no directory after it is touched
PurgeDocs(order, d, failAt, removed) ==
    LET ex == Existing(order, d)
        n  == IF failAt = 0 THEN Len(ex) ELSE failAt
    IN  [docs |-> [k \in AllKinds |->
                    IF \E i \in 1..n : ex[i] = k
                    THEN IF failAt # 0 /\ ex[failAt] = k
                         THEN clean_doc_failed(d[k], removed)
                         ELSE clean_doc(d[k])
                    ELSE d[k]],
         ops |-> [i \in 1..n |-> OpPurge(ex[i], i # failAt)],
         ok |-> failAt = 0]

Outcome(file, d, ops, ok) == [record |-> file, docs |-> d, ops |-> ops, ok |-> ok]

\* mutant: the fresh record is written before the directories are purged
GuardBodyWriteFirst(file, d, vv, order, failAt, removed, wfail) ==
    LET decision == Decide(file, vv)
        purged == PurgeDocs(order, d, failAt, removed)
        written == write_fingerprint(file, vv, wfail)
    IN  CASE decision = "write" ->
                Outcome(written, d, <<OpRead, OpWrite(wfail = "no")>>, wfail = "no")
          [] decision = "noop" -> Outcome(file, d, <<OpRead>>, TRUE)
          [] OTHER ->
                IF wfail # "no"
                THEN Outcome(written, d, <<OpRead, OpWrite(FALSE)>>, FALSE)
                ELSE Outcome(written, purged.docs,
                             <<OpRead, OpWrite(TRUE)>> \o purged.ops, purged.ok)

\* check_rustdoc_fingerprint past the skip switch
GuardBody(file, d, vv, order, failAt, removed, wfail) ==
    LET decision == Decide(file, vv)
        purged == PurgeDocs(order, d, failAt, removed)
        written == write_fingerprint(file, vv, wfail)
    IN  CASE decision = "write" ->
                Outcome(written, d, <<OpRead, OpWrite(wfail = "no")>>, wfail = "no")
          [] decision = "noop" -> Outcome(file, d, <<OpRead>>, TRUE)
          [] OTHER ->
                IF ~purged.ok
                THEN Outcome(file, purged.docs, <<OpRead>> \o purged.ops, FALSE)
                ELSE Outcome(written, purged.docs,
                             <<OpRead>> \o purged.ops \o <<OpWrite(wfail = "no")>>,
                             wfail = "no")

\* mutant: the skip switch is not honoured
GuardIgnoresSkip(skp, file, d, vv, order, failAt, removed, wfail) ==
    GuardBody(file, d, vv, order, failAt, removed, wfail)

\* check_rustdoc_fingerprint
Guard(skp, file, d, vv, order, failAt, removed, wfail) ==
    IF skp THEN Outcome(file, d, <<>>, TRUE)
    ELSE GuardBody(file, d, vv, order, failAt, removed, wfail)

\* the orders in which all_kinds may be iterated
KindOrders ==
    {o \in [1..Cardinality(AllKinds) -> AllKinds] : Range(o) = AllKinds}

NoRun == [ran |-> FALSE]

GuardInit ==
    /\ record = FileMissing
    /\ docs = [k \in AllKinds |-> NoDir]
    /\ rustc_vv \in Versions
    /\ skip \in BOOLEAN
    /\ since = "start"
    /\ lastRun = NoRun

\* one run of the guard; the run is recorded in lastRun. The iteration order
\* of all_kinds, the purge that fails and the fate of the write are chosen
\* freely where the run can depend on them.
CheckRustdocFingerprint ==
    \E order \in (IF skip \/ Decide(record, rustc_vv) # "purge"
                  THEN {CHOOSE o \in KindOrders : TRUE} ELSE KindOrders) :
    \E failAt \in (IF skip \/ Decide(record, rustc_vv) # "purge"
                   THEN {0} ELSE 0..Len(Existing(order, docs))) :
    \E removed \in (IF failAt = 0 THEN {{}}
                    ELSE SUBSET Removable(docs[Existing(order, docs)[failAt]].entries)) :
    \E wfail \in (IF skip \/ Decide(record, rustc_vv) = "noop" \/ failAt # 0
                  THEN {"no"} ELSE WriteFailures) :
        LET out == Guard(skip, record, docs, rustc_vv, order, failAt, removed, wfail)
        IN  /\ record' = out.record
            /\ docs' = out.docs
            /\ lastRun' = [ran |-> TRUE, skip |-> skip, vv |-> rustc_vv,
                           recordBefore |-> record, docsBefore |-> docs,
                           ops |-> out.ops, ok |-> out.ok, after |-> since]
            /\ since' = IF skip THEN since
                        ELSE IF out.ok THEN "run_ok"
                        ELSE IF out.ops[Len(out.ops)].op = "purge" THEN "purge_failed"
                        ELSE "other"
            /\ UNCHANGED <<rustc_vv, skip, flagVars, infoVars, newVars, dataVars, parseVars, raceVars>>

\* the toolchain is replaced: cx.bcx.rustc().verbose_version changes
ChangeRustc ==
    \E v \in Versions \ {rustc_vv} :
        /\ rustc_vv' = v
        /\ since' = "other"
        /\ lastRun' = NoRun
        /\ UNCHANGED <<record, docs, skip, flagVars, infoVars, newVars, dataVars, parseVars, raceVars>>

\* the record file is deleted or rewritten from outside cargo
ChangeRecord ==
    \E f \in FileStates \ {record} :
        /\ record' = f
        /\ since' = IF since = "run_ok" /\ f.tag = "json" THEN "record_changed"
                    ELSE "other"
        /\ lastRun' = NoRun
        /\ UNCHANGED <<docs, rustc_vv, skip, flagVars, infoVars, newVars, dataVars, parseVars, raceVars>>

\* rustdoc or the user puts an entry into a doc directory, creating it
AddEntry ==
    \E k \in AllKinds, e \in Entries :
        /\ e \notin docs[k].entries
        /\ docs' = [docs EXCEPT ![k] = Dir(docs[k].entries \cup {e})]
        /\ lastRun' = NoRun
        /\ UNCHANGED <<record, rustc_vv, skip, since, flagVars, infoVars, newVars, dataVars, parseVars, raceVars>>

\* -Z skip-rustdoc-fingerprint is given or dropped for the next build
SetSkip ==
    /\ skip' = ~skip
    /\ lastRun' = NoRun
    /\ UNCHANGED <<record, docs, rustc_vv, since, flagVars, infoVars, newVars, dataVars, parseVars, raceVars>>

InitGuard == GuardInit /\ FlagIdle /\ InfoIdle /\ NewIdle /\ DataIdle /\ ParseIdle /\ RaceIdle

NextGuard ==
    \/ CheckRustdocFingerprint
    \/ ChangeRustc
    \/ ChangeRecord
    \/ AddEntry
    \/ SetSkip

SpecGuard == InitGuard /\ [][NextGuard]_vars

(***************************************************************************)
(* Properties of the memoized crate-type table                             *)
(***************************************************************************)
InCall == lastCall # NoCall

\* the last call asked file_types about the crate type stored under key c
AskedFileTypes(c) ==
    /\ InCall
    /\ lastCall.op = "file_types"
    /\ (IF lastCall.crate_types[1] = "lib" THEN "rlib" ELSE lastCall.crate_types[1]) = c

\* what file_types answers from the table entry of c as the table is now
FromTable(c) ==
    IF crate_types[c].val.some
    THEN ROk(Some(FileTypesOf(c, lastCall.how, lastCall.target_triple,
                              crate_types[c].val.val[1], crate_types[c].val.val[2])))
    ELSE ROk(None)

\* C1 as stated: over any sequence of file_types and rustc_outputs calls on
\* one record, at most one single-kind probe is made in total for each crate
\* type.
C1_Original ==
    \A c \in CrateTypes : probes[c].ok + probes[c].failed <= 1

\* C1: over any sequence of file_types and rustc_outputs calls on one record,
\* at most one single-kind probe per crate type succeeds. A probe is made only
\* on a miss and at most once per call; the answer of a successful probe is in
\* the table, and stays there, before the result is built from it; a request
\* for a crate type that has an entry is answered from the entry without a
\* probe. (A failed probe stores nothing, so a later request probes again.)
C1_ProbedOnceStored ==
    /\ \A c \in CrateTypes :
          /\ probes[c].ok <= 1
          /\ probes[c].ok = 1 => crate_types[c].stored
          /\ (crate_types[c].stored /\ c \in OtherCrateTypes) => probes[c].ok = 1
    /\ InCall =>
          /\ \A j \in 1..Len(lastCall.probed) :
                /\ ~lastCall.before[lastCall.probed[j].crate_type].stored
                /\ lastCall.probed[j].ok
                      <=> crate_types[lastCall.probed[j].crate_type].stored
                /\ \A k \in 1..Len(lastCall.probed) :
                      lastCall.probed[k].crate_type = lastCall.probed[j].crate_type
                         => k = j
          /\ \A c \in CrateTypes :
                /\ lastCall.before[c].stored => crate_types[c] = lastCall.before[c]
                /\ (AskedFileTypes(c) /\ lastCall.res.ok) =>
                      /\ crate_types[c].stored
                      /\ lastCall.res = FromTable(c)

\* a probe of "o1" failed, a later one succeeded and was stored, and the last
\* call asked for "o1" again and was answered from the table without a probe
C1_Witness ==
    /\ probes["o1"].failed = 1
    /\ probes["o1"].ok = 1
    /\ AskedFileTypes("o1")
    /\ lastCall.probed = <<>>
    /\ lastCall.res.ok
    /\ lastCall.res.val.some

\* the diagnostics mark crate type c unsupported: one line holds one of the
\* two messages together with the quoted name of c
Flagged(c, error) ==
    \E i \in 1..Len(error) :
        /\ \/ Find(error[i], <<"u", "n", "s", "u", "p", "p", "o", "r", "t", "e", "d", " ", "c", "r", "a", "t", "e", " ", "t", "y", "p", "e">>) > 0
           \/ Find(error[i], <<"u", "n", "k", "n", "o", "w", "n", " ", "c", "r", "a", "t", "e", " ", "t", "y", "p", "e">>) > 0
        /\ Find(error[i], <<"c", "r", "a", "t", "e", " ", "t", "y", "p", "e", " ", "'">> \o as_str(c) \o <<"'">>) > 0

\* the known crate types the batched query did not mark unsupported, in the
\* order of the query
Unflagged(error) == SelectSeq(KNOWN_CRATE_TYPES, LAMBDA c : ~Flagged(c, error))

\* the key under which the table holds a requested crate type
KeyOf(c) == IF c = "lib" THEN "rlib" ELSE c

\* C11: a crate type that the diagnostics of a probe mark unsupported takes no
\* output line and is stored as absent, in the batched query (the root path
\* is the line after one line per unmarked crate type) as in a single-kind
\* probe; and whenever the table holds absent for a crate type, file_types
\* answers "not supported" for it and rustc_outputs lists it as unsupported
\* and gives no descriptor of that crate type.
C11_UnsupportedAbsent ==
    /\ \A c \in Range(KNOWN_CRATE_TYPES) :
          Flagged(c, newIn.query.stderr) => crate_types[c] = Stored(None)
    /\ newOut.out.val.sysroot.root
          = newIn.query.stdout[Len(Unflagged(newIn.query.stderr)) + 1]
    /\ InCall =>
          /\ \A j \in 1..Len(lastCall.probed) :
                LET c == lastCall.probed[j].crate_type
                IN  (lastCall.answers[c].ran /\ Flagged(c, lastCall.answers[c].stderr))
                       => crate_types[c] = Stored(None)
          /\ \A c \in CrateTypes :
                crate_types[c] = Stored(None) =>
                   /\ AskedFileTypes(c) => lastCall.res = ROk(None)
                   /\ (lastCall.op = "rustc_outputs" /\ lastCall.res.ok) =>
                         /\ \A j \in 1..Len(lastCall.res.val.result) :
                               lastCall.res.val.result[j].crate_type # Some(c)
                         /\ lastCall.how = "Build" =>
                               \A j \in 1..Len(lastCall.crate_types) :
                                  KeyOf(lastCall.crate_types[j]) = c =>
                                     lastCall.crate_types[j]
                                        \in Range(lastCall.res.val.unsupported)
                         /\ (lastCall.how \in {"Test", "Bench"} /\ c = "bin") =>
                               lastCall.res.val = Outputs(<<>>, <<"bin">>)

\* the batched query marked dylib unsupported, and file_types is asked about
\* dylib on an MSVC triple
C11_Witness ==
    /\ Flagged("dylib", newIn.query.stderr)
    /\ AskedFileTypes("dylib")
    /\ lastCall.target_triple = <<"w", "-", "w", "i", "n", "d", "o", "w", "s", "-", "m", "s", "v", "c">>
    /\ lastCall.res = ROk(None)

\* the last call was a successful file_types call about the supported crate
\* type stored under key c
Answered(c) ==
    /\ AskedFileTypes(c)
    /\ lastCall.res.ok
    /\ lastCall.res.val.some
    /\ crate_types[c].stored
    /\ crate_types[c].val.some

\* the descriptors that call returned, and the stored prefix and suffix
Descriptors == lastCall.res.val.val

PrimaryPrefix(c) == crate_types[c].val.val[1]

PrimarySuffix(c) == crate_types[c].val.val[2]

\* file_types answered for dylib on a triple ending in -windows-msvc with the
\* primary suffix .dll
MsvcDll ==
    /\ Answered("dylib")
    /\ EndsWith(lastCall.target_triple, <<"-", "w", "i", "n", "d", "o", "w", "s", "-", "m", "s", "v", "c">>)
    /\ PrimarySuffix("dylib") = <<".", "d", "l", "l">>

\* C15 as stated: for dylib on a triple ending in -windows-msvc with primary
\* suffix .dll, file_types returns exactly three descriptors, with suffixes
\* .dll, .dll.lib and .dll.exp in that order, all with the primary prefix.
C15_Original ==
    MsvcDll =>
       /\ Len(Descriptors) = 3
       /\ Descriptors[1].suffix = <<".", "d", "l", "l">>
       /\ Descriptors[2].suffix = <<".", "d", "l", "l", ".", "l", "i", "b">>
       /\ Descriptors[3].suffix = <<".", "d", "l", "l", ".", "e", "x", "p">>
       /\ \A j \in 1..3 : Descriptors[j].prefix = PrimaryPrefix("dylib")

\* C15: for dylib on a triple ending in -windows-msvc with primary suffix
\* .dll, file_types returns exactly four descriptors, all with the primary
\* prefix: the primary one with suffix .dll, the auxiliary ones with suffixes
\* .dll.lib and .dll.exp, in that order, and last one debug-info descriptor,
\* with suffix .pdb, or .dylib.dSYM when the triple also contains -apple-.
C15_MsvcDylib ==
    MsvcDll =>
       /\ Len(Descriptors) = 4
       /\ Descriptors[1]
             = FileType(lastCall.how, Some("dylib"), PrimaryPrefix("dylib"), <<".", "d", "l", "l">>, TRUE)
       /\ Descriptors[2]
             = FileType("Auxiliary", Some("dylib"), PrimaryPrefix("dylib"), <<".", "d", "l", "l", ".", "l", "i", "b">>, TRUE)
       /\ Descriptors[3]
             = FileType("Auxiliary", Some("dylib"), PrimaryPrefix("dylib"), <<".", "d", "l", "l", ".", "e", "x", "p">>, TRUE)
       /\ Descriptors[4].flavor = "DebugInfo"
       /\ Descriptors[4].prefix = PrimaryPrefix("dylib")
       /\ Descriptors[4].suffix
             = IF Contains(lastCall.target_triple, <<"-", "a", "p", "p", "l", "e", "-">>)
               THEN <<".", "d", "y", "l", "i", "b", ".", "d", "S", "Y", "M">> ELSE <<".", "p", "d", "b">>

\* file_types answered for dylib on w-windows-msvc with the fourth descriptor
\* naming the .pdb file
C15_Witness ==
    /\ MsvcDll
    /\ lastCall.target_triple = <<"w", "-", "w", "i", "n", "d", "o", "w", "s", "-", "m", "s", "v", "c">>
    /\ Len(Descriptors) = 4
    /\ Descriptors[4].suffix = <<".", "p", "d", "b">>

\* file_types answered for bin on a triple containing -apple-
AppleBin ==
    /\ Answered("bin")
    /\ Contains(lastCall.target_triple, <<"-", "a", "p", "p", "l", "e", "-">>)

\* the primary descriptor of a binary, and the descriptor of its debug bundle
PrimaryBin ==
    FileType(lastCall.how, Some("bin"), PrimaryPrefix("bin"), PrimarySuffix("bin"), FALSE)

DsymOfBin == FileType("DebugInfo", Some("bin"), PrimaryPrefix("bin"), <<".", "d", "S", "Y", "M">>, FALSE)

\* C16 as stated: for bin on a triple containing -apple-, where bin is
\* supported, file_types returns the primary descriptor plus exactly one
\* extra descriptor: debug-info, suffix .dSYM, the primary prefix, hyphens
\* kept; the primary descriptor keeps hyphens too.
C16_Original ==
    AppleBin => Descriptors = <<PrimaryBin, DsymOfBin>>

\* C16: for bin on a triple containing -apple-, where bin is supported,
\* file_types returns the primary descriptor, which keeps hyphens, and last
\* exactly one .dSYM descriptor: debug-info, the primary prefix, hyphens
\* kept. Nothing stands between the two unless the triple also starts with
\* wasm32- and the primary suffix is .js: then the .wasm and .wasm.map
\* descriptors stand between them.
C16_AppleBin ==
    AppleBin =>
       LET emscripten ==
               /\ StartsWith(lastCall.target_triple, <<"w", "a", "s", "m", "3", "2", "-">>)
               /\ PrimarySuffix("bin") = <<".", "j", "s">>
           n == Len(Descriptors)
       IN  /\ n = IF emscripten THEN 4 ELSE 2
           /\ Descriptors[1] = PrimaryBin
           /\ Descriptors[n] = DsymOfBin
           /\ \A j \in 1..n : Descriptors[j].suffix = <<".", "d", "S", "Y", "M">> => j = n
           /\ emscripten =>
                 /\ Descriptors[2]
                       = FileType("Auxiliary", Some("bin"), PrimaryPrefix("bin"), <<".", "w", "a", "s", "m">>, TRUE)
                 /\ Descriptors[3]
                       = FileType("DebugInfo", Some("bin"), PrimaryPrefix("bin"), <<".", "w", "a", "s", "m", ".", "m", "a", "p">>, TRUE)

\* file_types answered for bin on a-apple-darwin with the two descriptors
C16_Witness ==
    /\ AppleBin
    /\ lastCall.target_triple = <<"a", "-", "a", "p", "p", "l", "e", "-", "d", "a", "r", "w", "i", "n">>
    /\ Len(Descriptors) = 2
    /\ Descriptors[2].suffix = <<".", "d", "S", "Y", "M">>
    /\ ~Descriptors[1].should_replace_hyphens

\* the last call was a successful rustc_outputs call in Build mode
BuildDone ==
    /\ InCall
    /\ lastCall.op = "rustc_outputs"
    /\ lastCall.how = "Build"
    /\ lastCall.res.ok

\* the places of the metadata-only descriptors in a result
RmetaAt(result) == { j \in 1..Len(result) : result[j].flavor = "Rmeta" }

\* C17: in Build mode, for every requested list of crate types, the result
\* of a successful rustc_outputs call holds the metadata-only descriptor
\* exactly once, as its last element, if and only if some descriptor of a
\* supported crate type was produced and no requested crate type requires
\* upstream objects; otherwise the result holds no metadata-only descriptor.
C17_RmetaLast ==
    BuildDone =>
       LET result == lastCall.res.val.result
           n == Len(result)
           supported == \E j \in 1..n : result[j].flavor # "Rmeta"
           pipelined == \A j \in 1..Len(lastCall.crate_types) :
                           ~requires_upstream_objects(lastCall.crate_types[j])
       IN  IF supported /\ pipelined
           THEN RmetaAt(result) = {n} /\ result[n] = new_rmeta
           ELSE RmetaAt(result) = {}

\* rustc_outputs in Build mode was asked for rlib and lib together: one
\* descriptor for each and the metadata-only descriptor once, last
C17_Witness ==
    /\ BuildDone
    /\ lastCall.crate_types = <<"rlib", "lib">>
    /\ Len(lastCall.res.val.result) = 3
    /\ RmetaAt(lastCall.res.val.result) = {3}

\* the single-kind probe for crate type c fails on answer a: the compiler
\* cannot be run, or it does not mark c unsupported and prints no line or a
\* first line without the separator
ProbeFails(c, a) ==
    \/ ~a.ran
    \/ /\ ~Flagged(c, a.stderr)
       /\ \/ a.stdout = <<>>
          \/ Find(Trim(a.stdout[1]), <<"_", "_", "_">>) = 0

\* C27: a single-kind probe made on a miss fails exactly when the compiler
\* cannot be run or its answer is malformed; the call then returns the error
\* at once and the failed probe stores nothing: the crate type still has no
\* entry, every entry there was before the call keeps its value, and the
\* only entries the call added are those of probes that succeeded earlier in
\* the same call (none in a file_types call, whose table is as before).
C27_FailedProbeStoresNothing ==
    InCall =>
       \A j \in 1..Len(lastCall.probed) :
          LET c == lastCall.probed[j].crate_type
          IN  /\ lastCall.probed[j].ok <=> ~ProbeFails(c, lastCall.answers[c])
              /\ ~lastCall.probed[j].ok =>
                    /\ lastCall.res = RErr
                    /\ j = Len(lastCall.probed)
                    /\ ~lastCall.before[c].stored
                    /\ crate_types[c] = Vacant
                    /\ \A d \in CrateTypes :
                          /\ lastCall.before[d].stored =>
                                crate_types[d] = lastCall.before[d]
                          /\ crate_types[d] # lastCall.before[d] =>
                                \E k \in 1..(j - 1) :
                                   lastCall.probed[k] = Probed(d, TRUE)
                    /\ lastCall.op = "file_types" => crate_types = lastCall.before

\* file_types was asked about "o1", the compiler ran but printed a line
\* without the separator, and the call returned the error with the table
\* as it was
C27_Witness ==
    /\ AskedFileTypes("o1")
    /\ lastCall.probed = <<Probed("o1", FALSE)>>
    /\ lastCall.answers["o1"].ran
    /\ lastCall.answers["o1"].stdout # <<>>
    /\ lastCall.res = RErr
    /\ crate_types = lastCall.before
    /\ crate_types["o1"] = Vacant

\* rustc_outputs probed "o2" with success and then "o1" without: the error
\* is returned, "o2" keeps the entry just stored and "o1" has none
C27_WitnessOutputs ==
    /\ InCall
    /\ lastCall.op = "rustc_outputs"
    /\ lastCall.probed = <<Probed("o2", TRUE), Probed("o1", FALSE)>>
    /\ lastCall.res = RErr
    /\ crate_types["o2"].stored
    /\ crate_types["o1"] = Vacant

\* C28: a record that was built holds an entry, a pair or absent, for each
\* of bin, rlib, dylib, cdylib, staticlib and proc-macro, and holds it
\* unchanged ever after; no single-kind probe is ever made for one of them
\* or for lib, which is looked up as rlib and never becomes a key; and no
\* call changes or removes an entry that was there before it.
C28_KnownKindsNeverProbed ==
    /\ \A c \in Range(KNOWN_CRATE_TYPES) :
          /\ crate_types[c].stored
          /\ crate_types[c] = newOut.out.val.crate_types[c]
          /\ probes[c] = NoProbes[c]
    /\ crate_types["lib"] = Vacant
    /\ probes["lib"] = NoProbes["lib"]
    /\ InCall =>
          /\ \A j \in 1..Len(lastCall.probed) :
                lastCall.probed[j].crate_type \in OtherCrateTypes
          /\ \A c \in CrateTypes :
                lastCall.before[c].stored => crate_types[c] = lastCall.before[c]
          /\ (lastCall.op = "file_types"
                 /\ lastCall.crate_types[1] \in Range(KNOWN_CRATE_TYPES) \cup {"lib"}) =>
                /\ lastCall.probed = <<>>
                /\ lastCall.res.ok
                /\ crate_types = lastCall.before
                /\ lastCall.res.val.some =>
                      \A j \in 1..Len(lastCall.res.val.val) :
                         lastCall.res.val.val[j].crate_type
                            = Some(KeyOf(lastCall.crate_types[1]))

\* file_types was asked about lib: no probe, the answer is rlib's
C28_Witness ==
    /\ InCall
    /\ lastCall.op = "file_types"
    /\ lastCall.crate_types = <<"lib">>
    /\ lastCall.probed = <<>>
    /\ lastCall.res.ok
    /\ lastCall.res.val.some
    /\ lastCall.res.val.val[1].crate_type = Some("rlib")
    /\ lastCall.res.val.val[1].suffix = <<".", "r", "l", "i", "b">>

(***************************************************************************)
(* Properties of the callers that share one record                         *)
(***************************************************************************)
Inside(w) == workers[w].pc \notin {"idle", "done"}

Returned(w) == workers[w].pc = "done"

\* between its miss and its store (or its failed probe)
Resolving(w) == workers[w].pc \in {"vacant", "insert", "failed"}

\* the result the table gives for a crate type, as file_types builds it
TableResult(c) ==
    IF crate_types[c].val.some
    THEN ROk(Some(FileTypesOf(c, RaceFlavor, RaceTriple,
                              crate_types[c].val.val[1], crate_types[c].val.val[2])))
    ELSE ROk(None)

\* at most one worker is inside file_types, and it holds the borrow
OneInside ==
    /\ \A w1, w2 \in Workers : Inside(w1) /\ Inside(w2) => w1 = w2
    /\ borrowed = {w \in Workers : Inside(w)}

\* while a worker resolves a miss the table is as it found it, and the
\* entry is still vacant
NothingBetweenMissAndStore ==
    \A w \in Workers :
       Resolving(w) =>
          /\ crate_types = workers[w].seen
          /\ ~crate_types[workers[w].crate_type].stored

\* C22 as stated: the lookup-probe-store sequences of the workers are
\* mutually exclusive, nobody sees the table between a miss and its store,
\* every kind is probed once, and the workers that asked for one kind hold
\* the same stored result.
C22_Original ==
    /\ OneInside
    /\ NothingBetweenMissAndStore
    /\ \A c \in CrateTypes : probes[c].ok + probes[c].failed <= 1
    /\ \A w1, w2 \in Workers :
          Returned(w1) /\ Returned(w2)
             /\ workers[w1].crate_type = workers[w2].crate_type
          => /\ workers[w1].res.ok
             /\ workers[w1].res = workers[w2].res

\* C22: the lookup-probe-store sequences of the workers on one record are
\* mutually exclusive and nobody sees the table between a miss and its store;
\* every kind is probed successfully at most once and that result is stored;
\* every worker whose call succeeded holds the result of the table, so two of
\* them hold the same one; a worker holds an error only from its own failed
\* probe of a kind it found vacant.
C22_Serialized ==
    /\ OneInside
    /\ NothingBetweenMissAndStore
    /\ \A c \in CrateTypes :
          /\ probes[c].ok <= 1
          /\ probes[c].ok = 1 =>
                \/ crate_types[c].stored
                \/ \E w \in Workers : workers[w].pc = "insert"
                                         /\ workers[w].crate_type = c
    /\ \A w \in Workers :
          Returned(w) =>
             /\ workers[w].res.ok =>
                   /\ crate_types[workers[w].crate_type].stored
                   /\ workers[w].res = TableResult(workers[w].crate_type)
             /\ ~workers[w].res.ok =>
                   /\ ~workers[w].seen[workers[w].crate_type].stored
                   /\ workers[w].probe \in ProbeOutputs(workers[w].crate_type)
                   /\ ~discover_crate_type(workers[w].crate_type, workers[w].probe).ok
             /\ workers[w].res
                   = file_types(workers[w].seen, workers[w].crate_type, RaceFlavor,
                                RaceTriple, workers[w].probe).res

\* both workers asked for o1: one probed it and stored the affixes, the other
\* found the entry and was answered from it
C22_Witness ==
    /\ \A w \in Workers : Returned(w) /\ workers[w].crate_type = "o1"
    /\ probes["o1"] = [ok |-> 1, failed |-> 0]
    /\ \E w1, w2 \in Workers :
          /\ ~workers[w1].seen["o1"].stored
          /\ workers[w2].seen["o1"].stored
          /\ workers[w2].probe = NoAnswer
          /\ workers[w1].res = workers[w2].res
          /\ workers[w1].res.ok
          /\ workers[w1].res.val.some

(***************************************************************************)
(* Properties of TargetInfo::new                                           *)
(***************************************************************************)
NewCalled == newIn.set /\ newOut.called

Built == NewCalled /\ newOut.out.ok

\* the prefix and suffix a file-name line spells
SpelledBy(pair, line) ==
    /\ pair.some
    /\ pair.val[1] \o <<"_", "_", "_">> \o pair.val[2] = Trim(line)

\* C12: in a successful batched query the lines are read strictly in the
\* request order: the i-th crate type that is not marked unsupported gets line
\* i, a marked one gets none, the line after them is the root path and every
\* line after that is parsed as a predicate, in order (the bare proc_macro
\* predicate is dropped).
C12_LinesInOrder ==
    Built =>
        LET stdout == newIn.query.stdout
            unflagged == Unflagged(newIn.query.stderr)
            n == Len(unflagged)
            rest == SubSeq(stdout, n + 2, Len(stdout))
            kept == SelectSeq(rest, LAMBDA l : l # <<"p", "r", "o", "c", "_", "m", "a", "c", "r", "o">>)
            rec == newOut.out.val
        IN  /\ \A i \in 1..n :
                  /\ rec.crate_types[unflagged[i]].stored
                  /\ SpelledBy(rec.crate_types[unflagged[i]].val, stdout[i])
            /\ \A c \in Range(KNOWN_CRATE_TYPES) :
                  Flagged(c, newIn.query.stderr) => rec.crate_types[c] = Stored(None)
            /\ Len(stdout) >= n + 1
            /\ rec.sysroot.root = stdout[n + 1]
            /\ rec.cfg = [i \in 1..Len(kept) |-> Cfg_from_str(kept[i]).val]

\* a record built from a query that marks dylib unsupported, gives one line
\* for each of the three remaining crate types, the root path and a predicate
C12_Witness ==
    /\ Built
    /\ Flagged("dylib", newIn.query.stderr)
    /\ Len(Unflagged(newIn.query.stderr)) = 3
    /\ newOut.out.val.crate_types["staticlib"] = Stored(Some(<<<<"s">>, <<".", "s">>>>))
    /\ newOut.out.val.sysroot.root = <<"/", "s">>
    /\ newOut.out.val.cfg = <<CfgNamed(<<"u", "n", "i", "x">>)>>

\* the predicate lines of the batched query's answer: the lines after the
\* one line per unmarked crate type and the root path
PredicateLines ==
    SubSeq(newIn.query.stdout, Len(Unflagged(newIn.query.stderr)) + 2,
           Len(newIn.query.stdout))

ProcMacroName == CfgNamed(<<"p", "r", "o", "c", "_", "m", "a", "c", "r", "o">>)

IsNotProcMacroName(cfg) == cfg # ProcMacroName

\* C21: the predicates of a record that was built never include the bare
\* name proc_macro, whatever the compiler printed; they are the parsed
\* predicate lines, every one but the bare name proc_macro, in output order.
C21_ProcMacroFiltered ==
    Built =>
       /\ \A i \in 1..Len(newOut.out.val.cfg) :
             newOut.out.val.cfg[i] # ProcMacroName
       /\ \A i \in 1..Len(PredicateLines) : Cfg_from_str(PredicateLines[i]).ok
       /\ newOut.out.val.cfg
             = SelectSeq([i \in 1..Len(PredicateLines) |->
                             Cfg_from_str(PredicateLines[i]).val],
                         IsNotProcMacroName)

\* the compiler printed unix, proc_macro, os="l" and proc_macro="x": the
\* record holds the first, the third and the fourth
C21_Witness ==
    /\ Built
    /\ PredicateLines = CfgLines
    /\ newOut.out.val.cfg
          = << CfgNamed(<<"u", "n", "i", "x">>), CfgKeyPair(<<"o", "s">>, <<"l">>),
               CfgKeyPair(<<"p", "r", "o", "c", "_", "m", "a", "c", "r", "o">>, <<"x">>) >>

\* the configuration without its target.'cfg(..)' entries
WithoutCfgs(config) ==
    [config EXCEPT !.cfgs = <<>>,
                   !.errAt = IF config.errAt = "cfgs" THEN "none" ELSE config.errAt]

\* the predicate set the batched query returned, as the record holds it
ReturnedCfg == TargetCfgOf(newOut.out.val.cfg)

\* the tokens of the conditional entries that match the returned predicate
\* set, in configuration order
MatchingTokens ==
    Concat([i \in 1..Len(newIn.config.cfgs) |->
               IF /\ newIn.config.cfgs[i].rustflags.some
                  /\ matches_key(newIn.config.cfgs[i].key, ReturnedCfg.val)
               THEN newIn.config.cfgs[i].rustflags.val
               ELSE <<>>])

IsSuffix(s, t) == Len(s) <= Len(t) /\ SubSeq(t, Len(t) - Len(s) + 1, Len(t)) = s

\* the first resolution comes before the batched query, the two others after
PassesInOrder ==
    LET steps == newOut.out.steps
    IN  \A i, j, k \in 1..Len(steps) :
           (steps[i] = "rustflags0" /\ steps[j] = "query"
               /\ steps[k] \in {"rustflags", "rustdocflags"}) => (i < j /\ j < k)

\* the flags of the saved probe command are what a configuration without
\* conditional entries gives
BlindFlags ==
    newOut.out.val.crate_type_process.rustflags
       = env_args(WithoutCfgs(newIn.config), newIn.env, newIn.requested_kinds,
                  HostTriple, ReturnedCfg, newIn.kind, "RUSTFLAGS").val

\* the configuration is read for flag category `name`: the variable gives no
\* value and the host is not isolated
ConfigRead(name) ==
    /\ newIn.env[name].tag # "str"
    /\ ~(newIn.requested_kinds # <<Host>> /\ is_host(newIn.kind))

\* C23 as stated: the flags of the batched query and of the saved probe
\* command are resolved before the query and never include tokens of
\* conditional entries; the flags stored in the record are resolved after
\* the query and include the tokens of every conditional entry that matches
\* the predicate set returned.
C23_Original ==
    Built =>
       /\ PassesInOrder
       /\ BlindFlags
       /\ IsSuffix(MatchingTokens, newOut.out.val.rustflags)
       /\ IsSuffix(MatchingTokens, newOut.out.val.rustdocflags)

\* C23: the flags of the batched query and of the saved probe command are
\* resolved before the query and are what the configuration gives without
\* its conditional entries; the flags stored in the record are resolved
\* after the query, and whenever the configuration is read for them (the
\* variable of the category gives no value and the host is not isolated)
\* they end with the tokens of every conditional entry that matches the
\* predicate set returned, in configuration order.
C23_TwoPasses ==
    Built =>
       /\ PassesInOrder
       /\ BlindFlags
       /\ ConfigRead("RUSTFLAGS") =>
             IsSuffix(MatchingTokens, newOut.out.val.rustflags)
       /\ ConfigRead("RUSTDOCFLAGS") =>
             IsSuffix(MatchingTokens, newOut.out.val.rustdocflags)

\* a cross target whose query returned unix, with conditional entries in
\* the configuration: the probe command has the global flags, the record
\* the tokens of the entries that match
C23_Witness ==
    /\ Built
    /\ ConfigRead("RUSTFLAGS")
    /\ newIn.kind = Target("x")
    /\ "unix" \in ReturnedCfg.val
    /\ newOut.out.val.crate_type_process.rustflags = << <<"g", "r">> >>
    /\ newOut.out.val.rustflags = << <<"u">>, <<"t">>, <<"u">> >>

\* TargetInfo::new on the same inputs with the other outcome of the
\* split-debuginfo probe
OtherSplit ==
    TargetInfo_new(newIn.config, newIn.env, newIn.requested_kinds, HostTriple,
                   newIn.kind, ~newIn.split, newIn.query, newIn.windows)

\* C20: the split-debuginfo probe never makes TargetInfo::new fail: whether
\* it succeeds or fails, the call goes on from the probe to the batched
\* query, the call succeeds or fails at the same step as with the other
\* outcome of the probe, a record built differs from the one built with the
\* other outcome in its supports_split_debuginfo flag only, and that flag is
\* true exactly when the probe succeeded.
C20_SplitProbeNeverFatal ==
    NewCalled =>
       LET steps == newOut.out.steps
       IN  /\ steps[Len(steps)] # "split"
           /\ \A j \in 1..Len(steps) :
                 steps[j] = "split" => (j < Len(steps) /\ steps[j + 1] = "query")
           /\ newOut.out.ok = OtherSplit.ok
           /\ steps = OtherSplit.steps
           /\ newOut.out.ok =>
                 /\ "split" \in Range(steps)
                 /\ newOut.out.val.supports_split_debuginfo = newIn.split
                 /\ newOut.out.val
                       = [OtherSplit.val EXCEPT !.supports_split_debuginfo = newIn.split]

\* the probe failed, the batched query ran, and the record was built with the
\* flag false
C20_Witness ==
    /\ Built
    /\ ~newIn.split
    /\ newOut.out.steps[2] = "split"
    /\ newOut.out.steps[3] = "query"
    /\ ~newOut.out.val.supports_split_debuginfo

(***************************************************************************)
(* Properties of parse_crate_type                                          *)
(***************************************************************************)
Parsed == parseIn.set /\ parseOut.called

\* C14 as stated: for every prefix p and suffix s, the line p ___ s parses
\* to exactly the pair (p, s).
C14_Original ==
    Parsed => parseOut.out.res = ROk(Some(<<parseIn.prefix, parseIn.suffix>>))

\* the line p ___ s reads back as it was put together: p does not begin and s
\* does not end with whitespace, the separator first occurs right after p,
\* and s holds no separator
ReadsBack(p, s) ==
    /\ p = <<>> \/ ~IsWhitespace(p[1])
    /\ s = <<>> \/ ~IsWhitespace(s[Len(s)])
    /\ Find(p \o <<"_", "_", "_">> \o s, <<"_", "_", "_">>) = Len(p) + 1
    /\ Find(s, <<"_", "_", "_">>) = 0

\* C14: for every prefix p that does not begin with whitespace and suffix s
\* that does not end with whitespace, where the separator first occurs in
\* the line right after p and does not occur in s, the line p ___ s parses to
\* exactly the pair (p, s), also when p or s is empty; the one line is taken.
C14_RoundTrip ==
    (Parsed /\ ReadsBack(parseIn.prefix, parseIn.suffix)) =>
        /\ parseOut.out.res = ROk(Some(<<parseIn.prefix, parseIn.suffix>>))
        /\ parseOut.out.lines = <<>>

\* the line is the separator alone and parses to the empty prefix and suffix
C14_Witness ==
    /\ Parsed
    /\ parseIn.prefix = <<>> /\ parseIn.suffix = <<>>
    /\ parseOut.out.res = ROk(Some(<< <<>>, <<>> >>))

(***************************************************************************)
(* Properties of RustcTargetData                                           *)
(***************************************************************************)
DataCalled == dataIn.set /\ data.called

DataBuilt == DataCalled /\ data.out.ok

\* the answer of a batched query is unusable: the compiler did not run, the
\* lines run out before the unmarked crate types and the root path are read,
\* a file-name line has no separator, or a predicate line does not parse
Malformed(q) ==
    LET n == Len(Unflagged(q.stderr))
    IN  \/ ~q.ran
        \/ Len(q.stdout) < n + 1
        \/ \E i \in 1..n : i <= Len(q.stdout) /\ Find(Trim(q.stdout[i]), <<"_", "_", "_">>) = 0
        \/ \E i \in (n + 2)..Len(q.stdout) : ~Cfg_from_str(q.stdout[i]).ok

\* C13: a TargetInfo::new call whose batched query is unusable returns an
\* error and no record, it is the last step of the repository's construction,
\* and that construction returns an error and holds no record at all.
C13_NoPartialSuccess ==
    DataCalled =>
        \A j \in 1..Len(data.out.log) :
            LET step == data.out.log[j]
            IN  (step.op = "TargetInfo::new"
                    /\ Malformed(dataIn.queryOf[QueryKey(step.kind)])) =>
                   /\ ~step.ok
                   /\ ~NewOfKinds(dataIn)[KindIndex(step.kind)].ok
                   /\ NewOfKinds(dataIn)[KindIndex(step.kind)].val = None
                   /\ j = Len(data.out.log)
                   /\ ~data.out.ok
                   /\ data.out.val = None

\* the host's record was built, then the query for the cross target gave a
\* predicate line that does not parse
C13_Witness ==
    /\ DataCalled
    /\ ~data.out.ok
    /\ Len(data.out.log) > 3
    /\ data.out.log[3] = Step("TargetInfo::new", Host, TRUE)
    /\ data.out.log[Len(data.out.log)] = Step("TargetInfo::new", Target("x"), FALSE)
    /\ dataIn.queryOf["x"].stdout # <<>>
    /\ dataIn.queryOf["x"].stdout[Len(dataIn.queryOf["x"].stdout)] = <<"=">>

\* Host is among the requested kinds
HostRequested ==
    \E i \in 1..Len(dataIn.requested_kinds) : is_host(dataIn.requested_kinds[i])

Looked == lastLookup # NoLookup

\* what the lookup that was made returns for another kind
SameLookup(kind) ==
    IF lastLookup.op = "info" THEN info(data.out.val, kind)
    ELSE target_config(data.out.val, kind)

WalkedKinds ==
    Range(dataIn.requested_kinds)
       \cup { dataIn.members[i].default_kind.val :
                 i \in { j \in 1..Len(dataIn.members) : dataIn.members[j].default_kind.some } }
       \cup { dataIn.members[i].forced_kind.val :
                 i \in { j \in 1..Len(dataIn.members) : dataIn.members[j].forced_kind.some } }

\* C19: after RustcTargetData::new succeeded, every Target kind among the
\* requested kinds or the default or forced kind of a member has a record and
\* a configuration entry, info and target_config for it succeed, and a lookup
\* panics only for a Target kind that is none of those.
C19_RegisteredKinds ==
    DataBuilt =>
       /\ \A kind \in WalkedKinds :
             ~is_host(kind) =>
                /\ data.out.val.target_info[kind.triple].stored
                /\ data.out.val.target_config[kind.triple].stored
                /\ info(data.out.val, kind).ok
                /\ target_config(data.out.val, kind).ok
       /\ Looked =>
             /\ lastLookup.kind \in WalkedKinds => lastLookup.res.ok
             /\ lastLookup.res = Panic =>
                   /\ ~is_host(lastLookup.kind)
                   /\ lastLookup.kind \notin WalkedKinds

\* only Host was requested, a member forces Target("x"), and info for
\* Target("x") was looked up and found
C19_Witness ==
    /\ DataBuilt
    /\ dataIn.requested_kinds = <<Host>>
    /\ dataIn.members = <<Member(None, Some(Target("x")))>>
    /\ Looked
    /\ lastLookup.op = "info"
    /\ lastLookup.kind = Target("x")
    /\ lastLookup.res.ok

\* a lookup for a Target kind that was never registered panicked
C19_PanicReached ==
    /\ DataBuilt
    /\ Looked
    /\ lastLookup.res = Panic

\* the steps of the construction that looked up the configuration of, or
\* probed, the Target kind of triple t
StepsFor(op, t) ==
    { j \in 1..Len(data.out.log) :
         data.out.log[j].op = op /\ data.out.log[j].kind = Target(t) }

\* C24: RustcTargetData::new never replaces an entry: for each triple at most
\* one configuration lookup and one probe are made, however often the kind
\* is walked over; with Host requested none is made for the host triple, and
\* the entries under the host triple stay the copies of the host's
\* configuration and record; every other entry is what the one probe of its
\* kind returned, and only kinds walked over have entries.
C24_EntriesOnlyAdded ==
    DataCalled =>
       /\ \A t \in Triples :
             /\ Cardinality(StepsFor("target_cfg_triple", t)) <= 1
             /\ Cardinality(StepsFor("TargetInfo::new", t)) <= 1
             /\ (HostRequested /\ t = HostTriple) =>
                   /\ StepsFor("target_cfg_triple", t) = {}
                   /\ StepsFor("TargetInfo::new", t) = {}
       /\ data.out.ok =>
             \A t \in Triples :
                IF HostRequested /\ t = HostTriple
                THEN /\ data.out.val.target_info[t] = Stored(data.out.val.host_info)
                     /\ data.out.val.target_config[t] = Stored(data.out.val.host_config)
                ELSE IF Target(t) \in WalkedKinds
                THEN /\ data.out.val.target_info[t]
                           = Stored(NewOfKinds(dataIn)[KindIndex(Target(t))].val)
                     /\ data.out.val.target_config[t] = Stored(TargetConfigOf(t))
                     /\ Cardinality(StepsFor("TargetInfo::new", t)) = 1
                ELSE /\ data.out.val.target_info[t] = Vacant
                     /\ data.out.val.target_config[t] = Vacant

\* Host and Target(host triple) were requested, the query with --target for
\* the host triple would have answered differently, and the construction
\* made the three steps for the host and no other
C24_Witness ==
    /\ DataBuilt
    /\ dataIn.requested_kinds = <<Host, Target(HostTriple)>>
    /\ dataIn.queryOf[QueryKey(Target(HostTriple))] # dataIn.queryOf[QueryKey(Host)]
    /\ Len(data.out.log) = 3
    /\ data.out.val.target_info[HostTriple] = Stored(data.out.val.host_info)

(***************************************************************************)
(* Properties of the flag resolution chain                                 *)
(***************************************************************************)
FlagsResolved == flagIn.set /\ flagOut.called

EnvOfName == flagIn.env[flagIn.name]

\* the isolation rule as the claims state it: the Host kind is resolved and
\* the requested kinds are not exactly the single Host kind
HostIsolated == flagIn.kind = Host /\ flagIn.requested_kinds # <<Host>>

\* C8: resolving flags for Host returns the empty list whenever the requested
\* kinds are anything other than exactly [Host], whatever the environment and
\* the configuration hold (even a configuration that fails to load), and no
\* layer has been consulted when it does.
C8_HostIsolation ==
    (FlagsResolved /\ HostIsolated) =>
        /\ flagOut.out.ok
        /\ flagOut.out.val = <<>>
        /\ flagOut.out.consulted = <<>>

\* a cross target requested alone, the variable and every configuration layer
\* carrying flags, the configuration failing to load
C8_Witness ==
    /\ FlagsResolved
    /\ flagIn.kind = Host
    /\ flagIn.requested_kinds = <<Target("x")>>
    /\ EnvOfName = EnvStr(<<"a", " ", "b">>)
    /\ flagIn.config.byName[<<HostTriple, Lowercase(flagIn.name)>>].val # <<>>
    /\ flagIn.config.build.rustflags.val # <<>>
    /\ flagIn.config.errAt = "target"
    /\ flagOut.out = Ok(<<>>, <<>>)

\* the maximal runs of characters other than the space, by position
SpaceRuns(v) ==
    {r \in (1..Len(v)) \X (1..Len(v)) :
        /\ r[1] <= r[2]
        /\ \A i \in r[1]..r[2] : v[i] # " "
        /\ (r[1] = 1 \/ v[r[1] - 1] = " ")
        /\ (r[2] = Len(v) \/ v[r[2] + 1] = " ")}

\* `toks` is the runs of v between spaces, each trimmed, the empty ones
\* dropped, in order of position
IsSpaceTokens(toks, v) ==
    LET runs == {r \in SpaceRuns(v) : Trim(SubSeq(v, r[1], r[2])) # <<>>}
    IN  /\ Len(toks) = Cardinality(runs)
        /\ \A r \in runs :
              toks[Cardinality({q \in runs : q[1] <= r[1]})]
                  = Trim(SubSeq(v, r[1], r[2]))

\* C9 as stated: a variable that is set gives its whitespace-delimited tokens
\* and nothing else.
C9_Original ==
    (FlagsResolved /\ ~HostIsolated /\ EnvOfName.tag # "unset") =>
        /\ flagOut.out.ok
        /\ flagOut.out.val = SplitWhitespace(EnvOfName.val)
        /\ flagOut.out.consulted = <<"env">>

\* C9 (amended): when the isolation rule does not apply and the variable is
\* set to valid Unicode, the result is exactly the pieces of its value between
\* space characters, each trimmed of surrounding whitespace, the empty ones
\* dropped, in their original order; no configuration layer is consulted,
\* also when the value is empty or only whitespace.
C9_EnvWins ==
    (FlagsResolved /\ ~HostIsolated /\ EnvOfName.tag = "str") =>
        /\ flagOut.out.ok
        /\ IsSpaceTokens(flagOut.out.val, EnvOfName.val)
        /\ flagOut.out.consulted = <<"env">>

\* a value of only whitespace hides by-name, conditional and global flags
C9_Witness ==
    /\ FlagsResolved /\ ~HostIsolated
    /\ EnvOfName = EnvStr(<<"\t", " ">>)
    /\ flagIn.config.byName[<<"x", Lowercase(flagIn.name)>>].val # <<>>
    /\ flagIn.config.build.rustflags.val # <<>>
    /\ Len(flagIn.config.cfgs) > 1 /\ flagIn.target_cfg = Some({"unix"})
    /\ flagIn.kind = Target("x")
    /\ flagOut.out = Ok(<<>>, <<"env">>)

\* the platform-scoped flags, stated from the configuration: the by-name
\* value, then the flags of the entries that carry some and whose expression
\* holds of the known predicates, by position
ExpectedByName ==
    flagIn.config.byName[<<IF flagIn.kind = Host THEN HostTriple ELSE flagIn.kind.triple,
                           IF flagIn.name = "RUSTFLAGS" THEN "rustflags"
                           ELSE "rustdocflags">>]

ExpectedHolds(key) ==
    \/ key.op = "name" /\ key.name \in flagIn.target_cfg.val
    \/ key.op = "not" /\ key.name \notin flagIn.target_cfg.val

ExpectedMatching ==
    IF ~flagIn.target_cfg.some THEN <<>>
    ELSE Concat([i \in 1..Len(flagIn.config.cfgs) |->
            IF flagIn.config.cfgs[i].rustflags.some
               /\ ExpectedHolds(flagIn.config.cfgs[i].key)
            THEN flagIn.config.cfgs[i].rustflags.val ELSE <<>>])

ExpectedPlatform == ExpectedByName.val \o ExpectedMatching

ExpectedGlobal ==
    IF flagIn.name = "RUSTFLAGS" THEN flagIn.config.build.rustflags
    ELSE flagIn.config.build.rustdocflags

PlatformPresent ==
    \/ ExpectedByName.some
    \/ /\ flagIn.target_cfg.some
       /\ \E i \in 1..Len(flagIn.config.cfgs) :
             /\ flagIn.config.cfgs[i].rustflags.some
             /\ ExpectedHolds(flagIn.config.cfgs[i].key)

GuardRan == lastRun.ran /\ ~lastRun.skip

PurgeCount(k) ==
    Cardinality({i \in 1..Len(lastRun.ops) :
                    lastRun.ops[i].op = "purge" /\ lastRun.ops[i].kind = k})

NoPurge == \A i \in 1..Len(lastRun.ops) : lastRun.ops[i].op # "purge"

HoldsCurrentVersion == record.tag = "json" /\ record.rustc_vv = lastRun.vv

ExistedBefore == {k \in AllKinds : lastRun.docsBefore[k].exists}

HadOutput(k) ==
    \E e \in lastRun.docsBefore[k].entries : e.utf8 /\ e.name[1] # "."

\* the run purged every directory that existed, each once, and only then
\* wrote: a write is the last operation and follows a successful purge of
\* every existing directory; no directory is purged twice or created; the
\* run fails exactly when one of its operations fails, and a run that
\* succeeds has written the current version and left no rustdoc output
PurgedThenWrote ==
    /\ lastRun.ops[1] = OpRead
    /\ \A k \in AllKinds :
          PurgeCount(k) <= (IF k \in ExistedBefore THEN 1 ELSE 0)
    /\ \A i \in 1..Len(lastRun.ops) :
          lastRun.ops[i].op = "write" =>
              /\ i = Len(lastRun.ops)
              /\ \A k \in ExistedBefore :
                    \E j \in 1..(i - 1) : lastRun.ops[j] = OpPurge(k, TRUE)
    /\ lastRun.ok <=> \A i \in 1..Len(lastRun.ops) : lastRun.ops[i].ok
    /\ lastRun.ok =>
          /\ lastRun.ops[Len(lastRun.ops)] = OpWrite(TRUE)
          /\ HoldsCurrentVersion
          /\ \A k \in AllKinds :
                /\ docs[k].exists = lastRun.docsBefore[k].exists
                /\ docs[k].entries \subseteq lastRun.docsBefore[k].entries
                /\ ~\E e \in docs[k].entries : e.utf8 /\ e.name[1] # "."
    /\ ~lastRun.ok => record = lastRun.recordBefore \/ record = FileGarbage

\* C2: when the guard runs and the record cannot be read (missing, or not
\* readable as text), it reads, writes a fresh record and stops: the write is
\* its only other operation, the record holds the current verbose version once
\* the write has succeeded, and no doc directory is purged or modified.
C2_UnreadableWritesOnly ==
    (GuardRan /\ lastRun.recordBefore.tag \in {"missing", "not_text"}) =>
        /\ Len(lastRun.ops) = 2
        /\ lastRun.ops[1] = OpRead
        /\ lastRun.ops[2].op = "write"
        /\ lastRun.ok = lastRun.ops[2].ok
        /\ lastRun.ok => HoldsCurrentVersion
        /\ docs = lastRun.docsBefore

\* no record, rustdoc output present for both kinds, the record written
C2_Witness ==
    /\ GuardRan /\ lastRun.recordBefore = FileMissing
    /\ \A k \in AllKinds : HadOutput(k)
    /\ lastRun.ok /\ HoldsCurrentVersion
    /\ docs = lastRun.docsBefore

\* C3 as stated: a record that is readable but does not parse is handled like
\* a missing one: a fresh record is written and nothing is purged.
C3_Original ==
    (GuardRan /\ lastRun.recordBefore = FileGarbage) =>
        /\ NoPurge
        /\ docs = lastRun.docsBefore

\* C3 (amended): a record that is readable but does not parse is handled like
\* a version mismatch, not like a missing record: every existing doc directory
\* is purged and only then a fresh record with the current version is written.
\* The parse failure itself is no error: the run fails only if a purge or the
\* write fails.
C3_UnparseablePurges ==
    (GuardRan /\ lastRun.recordBefore = FileGarbage) => PurgedThenWrote

\* an unparseable record, rustdoc output for both kinds, all of it purged
C3_Witness ==
    /\ GuardRan /\ lastRun.recordBefore = FileGarbage
    /\ \A k \in AllKinds : HadOutput(k)
    /\ lastRun.ok /\ HoldsCurrentVersion
    /\ \A k \in AllKinds : PurgeCount(k) = 1 /\ docs[k] # lastRun.docsBefore[k]

ParsedBefore == lastRun.recordBefore.tag = "json"

\* C4: when the record parses, a stored version equal to the current one makes
\* the run a no-op (the read is its only operation, nothing is written or
\* purged); a different one makes it purge every existing doc directory and
\* only afterwards write a fresh record with the current version.
C4_MatchNoopMismatchPurges ==
    (GuardRan /\ ParsedBefore) =>
        IF lastRun.recordBefore.rustc_vv = lastRun.vv
        THEN /\ lastRun.ops = <<OpRead>>
             /\ lastRun.ok
             /\ record = lastRun.recordBefore
             /\ docs = lastRun.docsBefore
        ELSE PurgedThenWrote

\* a stale record, rustdoc output for both kinds, purged, then the write
C4_Witness ==
    /\ GuardRan /\ ParsedBefore
    /\ lastRun.recordBefore.rustc_vv # lastRun.vv
    /\ \A k \in AllKinds : HadOutput(k)
    /\ Len(lastRun.ops) = 4 /\ lastRun.ops[4] = OpWrite(TRUE)
    /\ lastRun.ok /\ HoldsCurrentVersion

C5_WitnessChanged ==
    /\ GuardRan /\ lastRun.after = "record_changed"
    /\ \A k \in AllKinds : HadOutput(k) /\ PurgeCount(k) = 1
    /\ lastRun.ops[4] = OpWrite(TRUE)

\* C6 as stated: a purge that succeeds removes every entry whose name does not
\* start with '.', and leaves the directory and every entry whose name starts
\* with '.'.
C6_Original ==
    GuardRan =>
        \A i \in 1..Len(lastRun.ops) :
            lastRun.ops[i] = OpPurge(lastRun.ops[i].kind, TRUE) =>
                LET k == lastRun.ops[i].kind
                IN  /\ docs[k].exists
                    /\ docs[k].entries =
                          {e \in lastRun.docsBefore[k].entries : e.name[1] = "."}

\* C7: with the skip switch set the guard does nothing: it performs no
\* operation (no read, no write, no purge) and leaves the record and every
\* doc directory as they were, whatever the record holds.
C7_SkipDoesNothing ==
    (lastRun.ran /\ lastRun.skip) =>
        /\ lastRun.ops = <<>>
        /\ lastRun.ok
        /\ record = lastRun.recordBefore
        /\ docs = lastRun.docsBefore

\* a skipped run over a stale record and rustdoc output for both kinds
C7_Witness ==
    /\ lastRun.ran /\ lastRun.skip
    /\ ParsedBefore /\ lastRun.recordBefore.rustc_vv # lastRun.vv
    /\ \A k \in AllKinds : HadOutput(k)
    /\ docs = lastRun.docsBefore

\* C25: after a run of the guard that was not disabled and returned Ok, the
\* record can be read and parsed and its version string is the current
\* compiler's verbose version, whatever the record was before the run.
C25_SuccessRecordsCurrent ==
    (GuardRan /\ lastRun.ok) =>
       /\ read(record).some
       /\ from_str(read(record).val).some
       /\ from_str(read(record).val).val.rustc_vv = rustc_vv
       /\ rustc_vv = lastRun.vv

\* a successful run that found a record it could not parse
C25_Witness ==
    /\ GuardRan /\ lastRun.ok
    /\ lastRun.recordBefore = FileGarbage
    /\ record = to_string(RustDocFingerprint(rustc_vv))

\* the run ended with a purge that failed
PurgeFailed ==
    \E i \in 1..Len(lastRun.ops) :
        lastRun.ops[i].op = "purge" /\ ~lastRun.ops[i].ok

\* C26: a run in which a purge fails returns the error at once and writes
\* nothing: the failed purge is its last operation and the record is as it
\* was, so the guard still finds a mismatch; the run that follows, with the
\* compiler and the record untouched, purges again. In every run that
\* purges, the record is written only after each existing doc directory was
\* purged successfully.
C26_FailedPurgeWritesNothing ==
    /\ (GuardRan /\ PurgeFailed) =>
          /\ ~lastRun.ok
          /\ lastRun.ops[Len(lastRun.ops)].op = "purge"
          /\ \A i \in 1..Len(lastRun.ops) :
                /\ lastRun.ops[i].op # "write"
                /\ ~lastRun.ops[i].ok => i = Len(lastRun.ops)
          /\ record = lastRun.recordBefore
          /\ Decide(record, rustc_vv) = "purge"
    /\ (GuardRan /\ lastRun.after = "purge_failed") =>
          /\ Decide(lastRun.recordBefore, lastRun.vv) = "purge"
          /\ ExistedBefore # {}
          /\ lastRun.ops[1] = OpRead
          /\ lastRun.ops[2].op = "purge"
    /\ GuardRan =>
          \A i \in 1..Len(lastRun.ops) :
             (lastRun.ops[i].op = "write"
                 /\ Decide(lastRun.recordBefore, lastRun.vv) = "purge") =>
                \A k \in ExistedBefore :
                   \E j \in 1..(i - 1) : lastRun.ops[j] = OpPurge(k, TRUE)

\* the run after one that failed in a purge: it purged both directories and
\* then wrote the record
C26_Witness ==
    /\ GuardRan /\ lastRun.after = "purge_failed"
    /\ lastRun.recordBefore.tag = "json"
    /\ lastRun.recordBefore.rustc_vv # lastRun.vv
    /\ Len(lastRun.ops) = 4
    /\ lastRun.ops[4] = OpWrite(TRUE)
    /\ lastRun.ok

\* a run that purged one directory and failed in the second
C26_WitnessFailed ==
    /\ GuardRan /\ PurgeFailed
    /\ Len(lastRun.ops) = 3
    /\ lastRun.ops[2].ok
    /\ record = lastRun.recordBefore
    /\ record.tag = "json"


=============================================================================
